---- MODULE Spec2Model ----
(***************************************************************************)
(* Model of the Domichain token toolkit (dtools): the instruction codec    *)
(* and builders of instructions.js, the composers of mint.js, burn.js      *)
(* (src/unnamed/part_000) and transfer.js, the submission protocol         *)
(* signAndSendTransaction, and the confirmation poll of the integration    *)
(* harness (production_test.js), and the balance queries of balance.js.    *)
(*                                                                         *)
(* One top-level operation runs per behaviour.  Every await of the code is *)
(* a suspension point: an action is the code between two awaits.  The      *)
(* external collaborators (the RPC connection and the wallet) answer       *)
(* nondeterministically; every call of a collaborator and every answer is  *)
(* appended to "trace".                                                    *)
(*                                                                         *)
(* Spec is the run of one top-level operation followed by the harness's    *)
(* confirmation loop; LiveSpec adds the fairness of that loop's awaits;     *)
(* PureSpec is a caller of the pure functions alone (the codec, the         *)
(* instruction builders, the address derivation); ConcurrentSpec is two    *)
(* operations of one process whose steps interleave at their awaits.       *)
(***************************************************************************)
EXTENDS Integers, Sequences, FiniteSets, TLC

\* ------------------------------------------------------------------ bounds

\* Token amounts range over 0..MaxAmount.
MaxAmount == 2
\* Lamport balances of queried accounts range over 0..MaxLamports.
MaxLamports == 1
\* confirmTransaction is called with maxRetries in -1..MaxRetries.
MaxRetries == 3
\* A caller of the pure functions derives up to MaxCalls addresses in a row.
MaxCalls == 2

\* --------------------------------------------------------------- addresses

\* A public key.  Keypair-backed keys have no seeds; a program-derived
\* address carries the seed list and is named after its derivation authority.
K(n) == [name |-> n, seeds |-> <<>>]

\* The value of a parameter the caller left out (JavaScript undefined).
Undefined == K("undefined")

TOKEN_PROGRAM_ID == K("TokenAAGbeQq5tGW2r5RoR3oauzN2EkNFiHNPw9q34s")
ASSOCIATED_TOKEN_PROGRAM_ID == K("Dt8fRCpjeV6JDemhPmtcTKijgKdPxXHn9Wo9cXY5agtG")
BTCI_PROGRAM_ID == K("BTCi9FUjBVY3BSaqjzfhEPKVExuvarj8Gtfn4rJ5soLC")
MEMO_PROGRAM_ID == K("Memo1UhkJRfHyvLMcVucJwxXeuD728EqVDDwQDxFMNo")
OWNER_VALIDATION_PROGRAM_ID == K("4MNPdKu9wFMvEeZBMt3Eipfs5ovVWTJb31pEXDJAAxX5")
\* @solana/web3.js: SystemProgram.programId, SYSVAR_RENT_PUBKEY, PublicKey.default
SystemProgramId == K("11111111111111111111111111111111")
SYSVAR_RENT_PUBKEY == K("SysvarRent111111111111111111111111111111111")
PublicKeyDefault == K("default")

\* The keys of one run: the wallet, the accounts it names and fresh keypairs.
WalletKey == K("wallet")
SourceKey == K("source")
DestinationKey == K("destination")
MintKey == K("mint")
TokenAccountKey == K("tokenAccount")
InitialAccountKey == K("initialAccount")
NewAccountKey == K("newAccount")

\* PublicKey.findProgramAddressSync(seeds, authority)[0]: a function of the
\* ordered seed list and the authority alone, one address per seed list.
FindProgramAddress(seedKeys, authority) ==
  [name |-> authority.name, seeds |-> [i \in 1..Len(seedKeys) |-> seedKeys[i].name]]

\* Mutant: the seeds in the order (owner, mint, token program).
findAssociatedTokenAddress_SeedOrder(walletAddress, tokenMintAddress, programId) ==
  LET p == IF programId = Undefined THEN K("TokenAAGbeQq5tGW2r5RoR3oauzN2EkNFiHNPw9q34s")
           ELSE programId
  IN  [name |-> "Dt8fRCpjeV6JDemhPmtcTKijgKdPxXHn9Wo9cXY5agtG",
       seeds |-> <<walletAddress.name, tokenMintAddress.name, p.name>>]

\* Mutant: the programId parameter without its default.
findAssociatedTokenAddress_NoDefault(walletAddress, tokenMintAddress, programId) ==
  [name |-> "Dt8fRCpjeV6JDemhPmtcTKijgKdPxXHn9Wo9cXY5agtG",
   seeds |-> <<walletAddress.name, programId.name, tokenMintAddress.name>>]

\* transfer.js findAssociatedTokenAddress: programId defaults to the token
\* program when omitted.
findAssociatedTokenAddress(walletAddress, tokenMintAddress, programId) ==
  LET p == IF programId = Undefined THEN TOKEN_PROGRAM_ID ELSE programId
  IN  FindProgramAddress(<<walletAddress, p, tokenMintAddress>>,
                         ASSOCIATED_TOKEN_PROGRAM_ID)

\* ------------------------------------------------------------------- bytes

RECURSIVE toBufferLE(_, _)
\* bigint-buffer toBufferLE(num, width): little-endian, width bytes.
toBufferLE(num, width) ==
  IF width = 0 THEN <<>>
  ELSE <<num % 256>> \o toBufferLE(num \div 256, width - 1)

RECURSIVE toBigIntLE(_)
\* bigint-buffer toBigIntLE(buf): the integer a little-endian buffer holds.
toBigIntLE(buf) ==
  IF buf = <<>> THEN 0 ELSE Head(buf) + 256 * toBigIntLE(Tail(buf))

\* The 32 raw bytes of a key (PublicKey.toBuffer): one distinguishing byte
\* followed by zeros; PublicKey.default is all zeros.
KeyByte(k) ==
  CASE k = PublicKeyDefault -> 0
    [] k = WalletKey -> 1
    [] k = MintKey -> 2
    [] k = SourceKey -> 3
    [] k = DestinationKey -> 4
    [] k = TokenAccountKey -> 5
    [] k = InitialAccountKey -> 6
    [] k = NewAccountKey -> 7
    [] k = TOKEN_PROGRAM_ID -> 8
    [] k = BTCI_PROGRAM_ID -> 9
    [] OTHER -> 255

toBuffer(k) == [i \in 1..32 |-> IF i = 1 THEN KeyByte(k) ELSE 0]

\* A 64-bit amount (a JavaScript BigInt) is held as four 16-bit words, least
\* significant first, so that amounts up to 2^64 - 1 keep their width.
BigIntOf(n) == <<n % 65536, (n \div 65536) % 65536, 0, 0>>

\* instructions.js 51-54, u64 = bigInt(8): layout.encode writes
\* toBufferLE(bigInt, 8), the eight bytes of the amount, little-endian.
u64Encode(big) ==
  toBufferLE(big[1], 2) \o toBufferLE(big[2], 2)
    \o toBufferLE(big[3], 2) \o toBufferLE(big[4], 2)

\* instructions.js 46-49: layout.decode reads toBigIntLE of the eight bytes.
u64Decode(buf) ==
  [k \in 1..4 |-> toBigIntLE(SubSeq(buf, 2 * k - 1, 2 * k))]

RECURSIVE Utf8(_)
\* Buffer.from(text, 'utf-8') of a sequence of code points below 2048.
Utf8(text) ==
  IF text = <<>> THEN <<>>
  ELSE LET c == Head(text)
       IN  (IF c < 128 THEN <<c>>
            ELSE <<192 + (c \div 64), 128 + (c % 64)>>) \o Utf8(Tail(text))

\* ------------------------------------------------------------ layout codec

\* instructions.js LAYOUT: the closed set of variants of the tagged union.
Variants ==
  {"initializeMint", "initializeAccount", "mintTo", "burn", "closeAccount",
   "transferChecked"}

\* The discriminator byte LAYOUT.addVariant registers for each variant.
VariantTag(v) ==
  CASE v = "initializeMint" -> 0
    [] v = "initializeAccount" -> 1
    [] v = "mintTo" -> 7
    [] v = "burn" -> 8
    [] v = "closeAccount" -> 9
    [] v = "transferChecked" -> 12

\* The source object an instruction builder hands to the encoder: the variant
\* name and the fields of its struct (fields a variant lacks are ignored).
Source(v, decimals, mintAuthority, freezeAuthority, amount) ==
  [variant |-> v, decimals |-> decimals, mintAuthority |-> mintAuthority,
   freezeAuthorityOption |-> freezeAuthority # Undefined,
   freezeAuthority |-> IF freezeAuthority = Undefined THEN PublicKeyDefault
                       ELSE freezeAuthority,
   amount |-> BigIntOf(amount)]

\* BufferLayout.u8(...).encode writes one unsigned byte: a value outside 0..255
\* makes the buffer write throw a RangeError.
u8InRange(value) == value \in 0..255

\* The bytes the variant's BufferLayout.struct writes after the tag.
StructBytes(src) ==
  CASE src.variant = "initializeMint" ->
         <<src.decimals>> \o toBuffer(src.mintAuthority)
           \o <<IF src.freezeAuthorityOption THEN 1 ELSE 0>>
           \o toBuffer(src.freezeAuthority)
    [] src.variant \in {"mintTo", "burn"} -> u64Encode(src.amount)
    [] src.variant = "transferChecked" ->
         u64Encode(src.amount) \o <<src.decimals>>
    [] OTHER -> <<>>

\* The span of a registered variant: the tag byte plus its struct.
VariantSpan(v) ==
  1 + Len(StructBytes(Source(v, 0, PublicKeyDefault, Undefined, 0)))

\* instructions.js instructionMaxSpan: the largest registered span.
instructionMaxSpan ==
  CHOOSE m \in {VariantSpan(v) : v \in Variants} :
    \A v \in Variants : VariantSpan(v) <= m

\* LAYOUT.encode(instruction, b): writes tag and struct at the start of b and
\* returns [buffer, span].
LayoutEncode(src, b) ==
  LET written == <<VariantTag(src.variant)>> \o StructBytes(src)
  IN  [buffer |-> [i \in 1..Len(b) |->
                     IF i <= Len(written) THEN written[i] ELSE b[i]],
       span |-> Len(written)]

\* LAYOUT.decode(b): the variant the tag byte names and the fields of its
\* struct; a u8 is read as a number, a blob as its bytes, a u64 as a BigInt.
LayoutDecode(b) ==
  IF b = <<>> \/ ~\E v \in Variants : VariantTag(v) = b[1]
  THEN [variant |-> "invalid"]
  ELSE LET v == CHOOSE w \in Variants : VariantTag(w) = b[1]
       IN  CASE v = "initializeMint" ->
                  [variant |-> v, decimals |-> b[2],
                   mintAuthority |-> SubSeq(b, 3, 34),
                   freezeAuthorityOption |-> b[35],
                   freezeAuthority |-> SubSeq(b, 36, 67)]
             [] v \in {"mintTo", "burn"} ->
                  [variant |-> v, amount |-> u64Decode(SubSeq(b, 2, 9))]
             [] v = "transferChecked" ->
                  [variant |-> v, amount |-> u64Decode(SubSeq(b, 2, 9)),
                   decimals |-> b[10]]
             [] OTHER -> [variant |-> v]

\* Mutant: one scratch buffer, allocated by the first call and handed out
\* again by every later one.
Alloc_Reused(h, size) ==
  IF h = <<>> THEN [heap |-> <<[i \in 1..size |-> 0]>>, ref |-> 1]
  ELSE [heap |-> h, ref |-> 1]

\* Buffer.alloc(size): memory no earlier call was given, filled with zeros.
Alloc(h, size) ==
  [heap |-> Append(h, [i \in 1..size |-> 0]), ref |-> Len(h) + 1]

\* The bytes seen through a Buffer: length bytes from the start of the
\* memory it refers to.
ViewBytes(h, view) == SubSeq(h[view.ref], 1, view.length)

\* instructions.js 86-90 on the heap h: b = Buffer.alloc(instructionMaxSpan),
\* LAYOUT.encode(instruction, b), and b.slice(0, span), which is a view of
\* b's memory and no copy.
encodeTokenInstructionDataOn(h, src) ==
  LET a == Alloc(h, instructionMaxSpan)
      e == LayoutEncode(src, a.heap[a.ref])
  IN  [heap |-> [a.heap EXCEPT ![a.ref] = e.buffer],
       view |-> [ref |-> a.ref, length |-> e.span]]

\* Mutant: the whole buffer returned, b.slice(0, span) left out.
encodeTokenInstructionData_NoSlice(src) ==
  LayoutEncode(src, [i \in 1..instructionMaxSpan |-> 0]).buffer

\* instructions.js encodeTokenInstructionData: a zeroed buffer of the maximum
\* span, encoded into, cut to the bytes used; the bytes the caller reads
\* through the Buffer returned.
encodeTokenInstructionData(src) ==
  LET r == encodeTokenInstructionDataOn(<<>>, src)
  IN  ViewBytes(r.heap, r.view)

\* ----------------------------------------------------- instruction builders

Meta(pubkey, isSigner, isWritable) ==
  [pubkey |-> pubkey, isSigner |-> isSigner, isWritable |-> isWritable]

TransactionInstruction(keys, data, programId) ==
  [programId |-> programId, keys |-> keys, data |-> data]

initializeMint(mint, decimals, mintAuthority, freezeAuthority) ==
  TransactionInstruction(
    <<Meta(mint, FALSE, TRUE), Meta(SYSVAR_RENT_PUBKEY, FALSE, FALSE)>>,
    encodeTokenInstructionData(
      Source("initializeMint", decimals, mintAuthority, freezeAuthority, 0)),
    TOKEN_PROGRAM_ID)

initializeAccount(account, mint, owner) ==
  TransactionInstruction(
    <<Meta(account, FALSE, TRUE), Meta(mint, FALSE, FALSE),
      Meta(owner, FALSE, FALSE), Meta(SYSVAR_RENT_PUBKEY, FALSE, FALSE)>>,
    encodeTokenInstructionData(
      Source("initializeAccount", 0, PublicKeyDefault, Undefined, 0)),
    TOKEN_PROGRAM_ID)

transferChecked(source, mint, destination, amount, decimals, owner, programId) ==
  TransactionInstruction(
    <<Meta(source, FALSE, TRUE), Meta(mint, FALSE, FALSE),
      Meta(destination, FALSE, TRUE), Meta(owner, TRUE, FALSE)>>,
    encodeTokenInstructionData(
      Source("transferChecked", decimals, PublicKeyDefault, Undefined, amount)),
    programId)

mintTo(mint, destination, amount, mintAuthority) ==
  TransactionInstruction(
    <<Meta(mint, FALSE, TRUE), Meta(destination, FALSE, TRUE),
      Meta(mintAuthority, TRUE, FALSE)>>,
    encodeTokenInstructionData(
      Source("mintTo", 0, PublicKeyDefault, Undefined, amount)),
    TOKEN_PROGRAM_ID)

closeAccount(source, destination, owner) ==
  TransactionInstruction(
    <<Meta(source, FALSE, TRUE), Meta(destination, FALSE, TRUE),
      Meta(owner, TRUE, FALSE)>>,
    encodeTokenInstructionData(
      Source("closeAccount", 0, PublicKeyDefault, Undefined, 0)),
    TOKEN_PROGRAM_ID)

burn(account, mint, amount, owner) ==
  TransactionInstruction(
    <<Meta(account, FALSE, TRUE), Meta(mint, FALSE, TRUE),
      Meta(owner, TRUE, FALSE)>>,
    encodeTokenInstructionData(
      Source("burn", 0, PublicKeyDefault, Undefined, amount)),
    TOKEN_PROGRAM_ID)

memoInstruction(memo) ==
  TransactionInstruction(<<>>, Utf8(memo), MEMO_PROGRAM_ID)

\* instructions.js 216-226: OWNER_VALIDATION_LAYOUT is one 32-byte key, written
\* into a buffer of exactly its span.
encodeOwnerValidationInstruction(account) == toBuffer(account)

\* instructions.js 222-226 on the heap h: b = Buffer.alloc(span), the key
\* encoded into it, b.slice(0, span) returned.
encodeOwnerValidationInstructionOn(h, account) ==
  LET a == Alloc(h, 32)
      written == encodeOwnerValidationInstruction(account)
  IN  [heap |-> [a.heap EXCEPT ![a.ref] =
                   [i \in 1..Len(@) |->
                      IF i <= Len(written) THEN written[i] ELSE @[i]]],
       view |-> [ref |-> a.ref, length |-> Len(written)]]

\* Mutant: the asserted account flagged writable.
assertOwner_Writable(account, owner) ==
  TransactionInstruction(
    <<Meta(account, FALSE, TRUE)>>,
    encodeOwnerValidationInstruction(owner),
    OWNER_VALIDATION_PROGRAM_ID)

assertOwner(account, owner) ==
  TransactionInstruction(
    <<Meta(account, FALSE, FALSE)>>,
    encodeOwnerValidationInstruction(owner),
    OWNER_VALIDATION_PROGRAM_ID)

\* @solana/web3.js SystemProgram.createAccount: u32 index 0, lamports, space
\* and the owning program; both the payer and the new account sign.
SystemCreateAccount(fromPubkey, newAccountPubkey, lamports, space, programId) ==
  TransactionInstruction(
    <<Meta(fromPubkey, TRUE, TRUE), Meta(newAccountPubkey, TRUE, TRUE)>>,
    toBufferLE(0, 4) \o toBufferLE(lamports, 8) \o toBufferLE(space, 8)
      \o toBuffer(programId),
    SystemProgramId)

\* @solana/web3.js SystemProgram.transfer: u32 index 2 and the lamports.
SystemTransfer(fromPubkey, toPubkey, lamports) ==
  TransactionInstruction(
    <<Meta(fromPubkey, TRUE, TRUE), Meta(toPubkey, FALSE, TRUE)>>,
    toBufferLE(2, 4) \o toBufferLE(lamports, 8),
    SystemProgramId)

\* What an instruction is, read off its wire content: the program it
\* addresses and, for the token program, the tag byte of its payload.
IxKind(ix) ==
  CASE ix.programId = MEMO_PROGRAM_ID -> "memo"
    [] ix.programId = ASSOCIATED_TOKEN_PROGRAM_ID -> "createAssociated"
    [] ix.programId = SystemProgramId ->
         IF toBigIntLE(SubSeq(ix.data, 1, 4)) = 0 THEN "createAccount"
         ELSE "systemTransfer"
    [] OTHER ->
         LET tag == ix.data[1]
         IN  IF \E v \in Variants : VariantTag(v) = tag
             THEN CHOOSE v \in Variants : VariantTag(v) = tag
             ELSE "unknown"

Kinds(instructions) == [i \in 1..Len(instructions) |-> IxKind(instructions[i])]

\* ------------------------------------------------------------------- state

VARIABLES
  pc,           \* where the running async function is suspended
  op,           \* the top-level operation that was called
  params,       \* its parameter object
  transaction,  \* the Transaction object being composed and submitted
  signers,      \* the extra signer list handed to signAndSendTransaction
  trace,        \* every collaborator call, return and rejection, in order
  result,       \* what the top-level operation returned or threw
  confirm,      \* the harness's confirmTransaction loop: maxRetries, i, outcome
  heap,         \* the buffers Buffer.alloc has handed out, in order
  other         \* the locals of a second operation, suspended at an await

vars == <<pc, op, params, transaction, signers, trace, result, confirm, heap, other>>

\* --------------------------------------------------- collaborators' answers

\* connection.getAccountInfo resolves to null or to an account record.
NullInfo == [exists |-> FALSE, owner |-> Undefined, lamports |-> 0, data |-> <<>>]

AccountInfo(owner, lamports, data) ==
  [exists |-> TRUE, owner |-> owner, lamports |-> lamports, data |-> data]

\* The token-account state layout: [32B mint][32B owner][8B amount LE].
TokenAccountData(mint, owner, amount) ==
  toBuffer(mint) \o toBuffer(owner) \o toBufferLE(amount, 8)

\* What the ledger may hold at a transfer destination or its derived address.
DestinationInfos ==
  {NullInfo} \cup
  {AccountInfo(o, l, <<>>) :
     o \in {TOKEN_PROGRAM_ID, BTCI_PROGRAM_ID, SystemProgramId},
     l \in 0..MaxLamports}

\* What the ledger may hold at the token account burnAllTokens reads.
TokenAccountInfos ==
  {NullInfo} \cup
  {AccountInfo(TOKEN_PROGRAM_ID, 1, TokenAccountData(MintKey, WalletKey, a)) :
     a \in 0..MaxAmount}

\* data.js parseTokenAccountData: the decoded token-account state; the amount
\* is the arbitrary-precision integer of the 8 little-endian bytes at 64.
parseTokenAccountData(data) ==
  [mint |-> SubSeq(data, 1, 32), owner |-> SubSeq(data, 33, 64),
   amount |-> toBigIntLE(SubSeq(data, 65, 72))]

\* The mint state layout: [4B authority option][32B mint authority]
\* [8B supply LE][1B decimals][1B initialized][4B freeze option][32B freeze
\* authority]; decimals sits at byte offset 44.
MintData(supply, decimals) ==
  toBufferLE(1, 4) \o toBuffer(WalletKey) \o toBufferLE(supply, 8)
    \o <<decimals, 1>> \o toBufferLE(0, 4) \o toBuffer(PublicKeyDefault)

\* What the ledger may hold at the mint the balance queries read.
MintInfos ==
  {NullInfo} \cup
  {AccountInfo(TOKEN_PROGRAM_ID, 1, MintData(a, 9)) : a \in 0..MaxAmount}

\* data.js parseMintData: the decoded mint state.
parseMintData(data) ==
  [supply |-> toBigIntLE(SubSeq(data, 37, 44)), decimals |-> data[45]]

\* The PublicKey that 32 decoded bytes denote.
PublicKeyOf(bytes) ==
  CHOOSE k \in {PublicKeyDefault, WalletKey, MintKey, SourceKey,
                DestinationKey, TokenAccountKey} : toBuffer(k) = bytes

Ev(fn, phase, key, info) == [fn |-> fn, phase |-> phase, key |-> key, info |-> info]
Call(fn, key) == Ev(fn, "call", key, NullInfo)
Return(fn, key, info) == Ev(fn, "return", key, info)
Throw(fn, key) == Ev(fn, "throw", key, NullInfo)

\* Error messages of the code, and the rejection of a collaborator.
DestinationUnfunded == "Cannot send to address with zero DOMI balances"
AccountNotFound == "Token account not found"
MintNotFound == "Mint not found"
ZeroBalance == "Token account has zero balance"
SignatureVerificationFailed == "Signature verification failed"
CollaboratorError == "collaborator rejected"
TypeError == "TypeError"
ReferenceError == "ReferenceError"
EncodingError == "RangeError"

Pending == [status |-> "pending", value |-> ""]
Returned(v) == [status |-> "returned", value |-> v]
Thrown(e) == [status |-> "thrown", value |-> e]

\* new Transaction()
NewTransaction ==
  [instructions |-> <<>>, recentBlockhash |-> "", signerKeys |-> <<>>,
   signatures |-> {}, feePayer |-> Undefined]

\* Transaction.add(...items): an instruction is appended; a Transaction item
\* contributes its instructions, in order.
TxAdd(tx, instructions) ==
  [tx EXCEPT !.instructions = @ \o instructions]

ConfirmIdle == [maxRetries |-> 0, i |-> 0, status |-> "idle", value |-> ""]

\* ------------------------------------------------------------- parameters

NoMemo == [defined |-> FALSE, text |-> <<>>]
Memos == {NoMemo, [defined |-> TRUE, text |-> <<>>],
          [defined |-> TRUE, text |-> <<109, 233>>]}
\* JavaScript truthiness of the memo parameter: undefined and '' are falsy.
Truthy(memo) == memo.defined /\ memo.text # <<>>

Amounts == 0..MaxAmount
DecimalsSet == {0, 9, 256}

NoParams ==
  [amount |-> 0, decimals |-> 0, memo |-> NoMemo,
   overrideDestinationCheck |-> FALSE, programId |-> Undefined,
   closeIfEmpty |-> FALSE, initialAccount |-> Undefined,
   skipPreflight |-> FALSE]

\* The locals of an operation that has not been called.
NoOperation ==
  [pc |-> "idle", op |-> "none", params |-> NoParams,
   transaction |-> NewTransaction, signers |-> <<>>, trace |-> <<>>,
   result |-> Pending]

Init ==
  /\ pc = "idle"
  /\ op = "none"
  /\ params = NoParams
  /\ transaction = NewTransaction
  /\ signers = <<>>
  /\ trace = <<>>
  /\ result = Pending
  /\ confirm = ConfirmIdle
  /\ heap = <<>>
  /\ other = NoOperation

\* ------------------------------------------------------ common step shapes

\* The top-level operation ends: it returned a value or threw.
Finish(res, tr) ==
  /\ pc' = "done"
  /\ result' = res
  /\ trace' = tr

\* return await signAndSendTransaction(connection, tx, wallet, sgn): the
\* submission protocol starts by calling connection.getRecentBlockhash.
EnterSignAndSend(tx, sgn, tr) ==
  /\ transaction' = tx
  /\ signers' = sgn
  /\ trace' = Append(tr, Call("getRecentBlockhash", Undefined))
  /\ pc' = "sas_blockhash"
  /\ UNCHANGED result

\* ------------------------------------------------------------- transfer.js

\* The programId parameter of transferTokens after its default is applied.
ProgramIdOf(p) ==
  IF p.programId = Undefined THEN TOKEN_PROGRAM_ID ELSE p.programId

\* Mutant: owner === programId, which compares object identity and is never
\* true of the PublicKey a query returns.
IsTokenAccount_ReferenceEquality(info, programId) == FALSE

\* transferTokens' test that a queried account is a token account.
IsTokenAccount(info, programId) ==
  info.exists /\ info.owner = programId

\* Mutant: the guard without the override.
RejectsUnfunded_NoOverride(info, overrideDestinationCheck) ==
  ~info.exists \/ info.lamports = 0

\* transferTokens' guard against sending to an unfunded address.
RejectsUnfunded(info, overrideDestinationCheck) ==
  (~info.exists \/ info.lamports = 0) /\ ~overrideDestinationCheck

createTransferBetweenSplTokenAccountsInstruction(ownerPublicKey, mint, decimals, sourcePublicKey, destinationPublicKey, amount, memo, programId) ==
  LET t == TxAdd(NewTransaction,
                 <<transferChecked(sourcePublicKey, mint, destinationPublicKey,
                                   amount, decimals, ownerPublicKey, programId)>>)
  IN  IF Truthy(memo) THEN TxAdd(t, <<memoInstruction(memo.text)>>) ELSE t

transferBetweenSplTokenAccounts(ownerPublicKey, mint, decimals, sourcePublicKey, destinationPublicKey, amount, memo, programId) ==
  createTransferBetweenSplTokenAccountsInstruction(
    ownerPublicKey, mint, decimals, sourcePublicKey, destinationPublicKey,
    amount, memo, programId)

\* Mutant: the associated address derived under the default token program
\* whatever programId the caller gave.
createAssociatedTokenAccountIx_DefaultSeed(fundingAddress, walletAddress, dplTokenMintAddress, programId) ==
  LET associatedTokenAddress ==
        findAssociatedTokenAddress(walletAddress, dplTokenMintAddress, Undefined)
  IN  [ix |-> TransactionInstruction(
                <<Meta(fundingAddress, TRUE, TRUE),
                  Meta(associatedTokenAddress, FALSE, TRUE),
                  Meta(walletAddress, FALSE, FALSE),
                  Meta(dplTokenMintAddress, FALSE, FALSE),
                  Meta(SystemProgramId, FALSE, FALSE),
                  Meta(programId, FALSE, FALSE),
                  Meta(SYSVAR_RENT_PUBKEY, FALSE, FALSE)>>,
                <<>>,
                ASSOCIATED_TOKEN_PROGRAM_ID),
       address |-> associatedTokenAddress]

\* transfer.js 157-211: the instruction that creates the associated token
\* account of walletAddress, and the address it derives for it.
createAssociatedTokenAccountIx(fundingAddress, walletAddress, dplTokenMintAddress, programId) ==
  LET associatedTokenAddress ==
        findAssociatedTokenAddress(walletAddress, dplTokenMintAddress, programId)
  IN  [ix |-> TransactionInstruction(
                <<Meta(fundingAddress, TRUE, TRUE),
                  Meta(associatedTokenAddress, FALSE, TRUE),
                  Meta(walletAddress, FALSE, FALSE),
                  Meta(dplTokenMintAddress, FALSE, FALSE),
                  Meta(SystemProgramId, FALSE, FALSE),
                  Meta(programId, FALSE, FALSE),
                  Meta(SYSVAR_RENT_PUBKEY, FALSE, FALSE)>>,
                <<>>,
                ASSOCIATED_TOKEN_PROGRAM_ID),
       address |-> associatedTokenAddress]

\* transfer.js 139-155: the standalone createAssociatedTokenAccount builds the
\* instruction for the wallet's own associated account, passing no programId,
\* makes the wallet the fee payer and submits with no extra signer.
CallCreateAssociatedTokenAccount ==
  /\ pc = "idle"
  /\ params' = NoParams
  /\ op' = "createAssociatedTokenAccount"
  /\ LET c == createAssociatedTokenAccountIx(WalletKey, WalletKey, MintKey,
                                             Undefined)
         tx == TxAdd(NewTransaction, <<c.ix>>)
     IN  EnterSignAndSend([tx EXCEPT !.feePayer = WalletKey], <<>>, trace)
  /\ UNCHANGED <<confirm, heap, other>>

\* Mutant: the transfer added before the account creation.
createAndTransferToAccount_TransferFirst(ownerPublicKey, sourcePublicKey, destinationPublicKey, amount, memo, mint, decimals, programId) ==
  LET c == createAssociatedTokenAccountIx(ownerPublicKey, destinationPublicKey,
                                          mint, programId)
  IN  TxAdd(createTransferBetweenSplTokenAccountsInstruction(
              ownerPublicKey, mint, decimals, sourcePublicKey, c.address,
              amount, memo, programId),
            <<c.ix>>)

createAndTransferToAccount(ownerPublicKey, sourcePublicKey, destinationPublicKey, amount, memo, mint, decimals, programId) ==
  LET c == createAssociatedTokenAccountIx(ownerPublicKey, destinationPublicKey,
                                          mint, programId)
  IN  TxAdd(TxAdd(NewTransaction, <<c.ix>>),
            createTransferBetweenSplTokenAccountsInstruction(
              ownerPublicKey, mint, decimals, sourcePublicKey, c.address,
              amount, memo, programId).instructions)

\* transferTokens is called: it queries the destination and suspends.
CallTransferTokens ==
  /\ pc = "idle"
  /\ \E a \in Amounts, d \in DecimalsSet, m \in Memos, o \in BOOLEAN,
        p \in {Undefined, BTCI_PROGRAM_ID} :
       params' = [NoParams EXCEPT !.amount = a, !.decimals = d, !.memo = m,
                                  !.overrideDestinationCheck = o,
                                  !.programId = p]
  /\ op' = "transferTokens"
  /\ trace' = Append(trace, Call("getAccountInfo", DestinationKey))
  /\ pc' = "tt_destinationInfo"
  /\ UNCHANGED <<transaction, signers, result, confirm, heap, other>>

\* transfer.js 45-79: the first query resolves.  A decimals the layout cannot
\* encode makes transferChecked throw while the transaction is built.
TransferTokens_DestinationInfo ==
  /\ pc = "tt_destinationInfo"
  /\ \E destinationAccountInfo \in DestinationInfos :
       LET programId == ProgramIdOf(params)
           tr == Append(trace, Return("getAccountInfo", DestinationKey,
                                      destinationAccountInfo))
       IN  IF IsTokenAccount(destinationAccountInfo, programId)
           THEN IF u8InRange(params.decimals)
                THEN /\ transaction' = transferBetweenSplTokenAccounts(
                           WalletKey, MintKey, params.decimals, SourceKey,
                           DestinationKey, params.amount, params.memo,
                           programId)
                     /\ Finish(Returned("transaction"), tr)
                ELSE /\ Finish(Thrown(EncodingError), tr)
                     /\ UNCHANGED transaction
           ELSE IF RejectsUnfunded(destinationAccountInfo,
                                   params.overrideDestinationCheck)
           THEN /\ Finish(Thrown(DestinationUnfunded), tr)
                /\ UNCHANGED transaction
           ELSE /\ trace' = Append(tr, Call("getAccountInfo",
                      findAssociatedTokenAddress(DestinationKey, MintKey,
                                                 programId)))
                /\ pc' = "tt_associatedInfo"
                /\ UNCHANGED <<transaction, result>>
  /\ UNCHANGED <<op, params, signers, confirm, heap, other>>

\* transfer.js 77-106: the second query resolves.  A decimals the layout
\* cannot encode makes transferChecked throw; on the create path that is
\* while the arguments of Transaction.add are evaluated (transfer.js 246-258),
\* so that nothing has been added.
TransferTokens_AssociatedInfo ==
  /\ pc = "tt_associatedInfo"
  /\ \E destinationAccountInfo \in DestinationInfos :
       LET programId == ProgramIdOf(params)
           destinationAssociatedTokenAddress ==
             findAssociatedTokenAddress(DestinationKey, MintKey, programId)
           tr == Append(trace, Return("getAccountInfo",
                                      destinationAssociatedTokenAddress,
                                      destinationAccountInfo))
       IN  IF ~u8InRange(params.decimals)
           THEN /\ Finish(Thrown(EncodingError), tr)
                /\ UNCHANGED transaction
           ELSE /\ transaction' =
                     IF IsTokenAccount(destinationAccountInfo, programId)
                     THEN transferBetweenSplTokenAccounts(
                            WalletKey, MintKey, params.decimals, SourceKey,
                            destinationAssociatedTokenAddress, params.amount,
                            params.memo, programId)
                     ELSE createAndTransferToAccount(
                            WalletKey, SourceKey, DestinationKey,
                            params.amount, params.memo, MintKey,
                            params.decimals, programId)
                /\ Finish(Returned("transaction"), tr)
  /\ UNCHANGED <<op, params, signers, confirm, heap, other>>

\* A getAccountInfo of transferTokens rejects: the error propagates.
TransferTokens_QueryRejects ==
  /\ pc \in {"tt_destinationInfo", "tt_associatedInfo"}
  /\ Finish(Thrown(CollaboratorError),
            Append(trace, Throw("getAccountInfo", trace[Len(trace)].key)))
  /\ UNCHANGED <<op, params, transaction, signers, confirm, heap, other>>

\* ------------------------------------- instructions.js signAndSendTransaction

RECURSIVE Dedup(_)
\* Transaction.setSigners keeps the first occurrence of every key.
Dedup(keys) ==
  IF keys = <<>> THEN <<>>
  ELSE LET rest == Dedup(SubSeq(keys, 1, Len(keys) - 1))
           last == keys[Len(keys)]
       IN  IF \E i \in 1..Len(rest) : rest[i] = last THEN rest
           ELSE Append(rest, last)

\* The fee payer of a compiled transaction: the explicit one, else the first
\* key given to setSigners.
FeePayerOf(tx) ==
  IF tx.feePayer # Undefined THEN tx.feePayer ELSE tx.signerKeys[1]

\* Mutant: serialize verifying the fee payer's signature alone.
RequiredSigners_FeePayerOnly(tx) == {FeePayerOf(tx)}

\* The keys whose signatures Transaction.serialize requires.
RequiredSigners(tx) ==
  {FeePayerOf(tx)} \cup
  UNION {{tx.instructions[i].keys[j].pubkey :
            j \in {k \in 1..Len(tx.instructions[i].keys) :
                     tx.instructions[i].keys[k].isSigner}} :
         i \in 1..Len(tx.instructions)}

\* Some account of the transaction has no public key: compiling the message
\* (Transaction.serialize) reads a property of undefined.
HasUndefinedKey(tx) ==
  \E i \in 1..Len(tx.instructions) :
    \E j \in 1..Len(tx.instructions[i].keys) :
      tx.instructions[i].keys[j].pubkey = Undefined

\* The signature sets an injected wallet.signTransaction may hand back: it
\* adds the wallet's signature, or signs afresh with the wallet key alone, or
\* returns the transaction without signing.
WalletAnswers(tx) ==
  {tx.signatures \cup {WalletKey}, {WalletKey}, tx.signatures}

\* Mutant: partialSign called whatever the signer list holds.
HasExtraSigners_Always(sgn) == TRUE

\* instructions.js 253: partialSign is called only with extra signers.
HasExtraSigners(sgn) == Len(sgn) > 0

\* Mutant: the submission protocol drops the last instruction it was given.
SignAndSend_Blockhash_DropsLast ==
  /\ pc = "sas_blockhash"
  /\ LET keys == Dedup(<<WalletKey>> \o signers)
         t1 == Append(Append(trace,
                             Return("getRecentBlockhash", Undefined, NullInfo)),
                      Call("setSigners", Undefined))
         t2 == IF HasExtraSigners(signers)
               THEN Append(t1, Call("partialSign", Undefined)) ELSE t1
     IN  /\ transaction' =
              [transaction EXCEPT
                 !.instructions = SubSeq(@, 1, Len(@) - 1),
                 !.recentBlockhash = "blockhash",
                 !.signerKeys = keys,
                 !.signatures = {signers[i] : i \in 1..Len(signers)}]
         /\ trace' = Append(t2, Call("signTransaction", Undefined))
  /\ pc' = "sas_wallet"
  /\ UNCHANGED <<op, params, signers, result, confirm, heap, other>>

\* instructions.js 244-257: getRecentBlockhash resolved; the blockhash and the
\* signer set are attached, the extra signers sign, the wallet is asked.
SignAndSend_Blockhash ==
  /\ pc = "sas_blockhash"
  /\ LET keys == Dedup(<<WalletKey>> \o signers)
         t1 == Append(Append(trace,
                             Return("getRecentBlockhash", Undefined, NullInfo)),
                      Call("setSigners", Undefined))
         t2 == IF HasExtraSigners(signers)
               THEN Append(t1, Call("partialSign", Undefined)) ELSE t1
     IN  /\ transaction' =
              [transaction EXCEPT
                 !.recentBlockhash = "blockhash",
                 !.signerKeys = keys,
                 !.signatures = {signers[i] : i \in 1..Len(signers)}]
         /\ trace' = Append(t2, Call("signTransaction", Undefined))
  /\ pc' = "sas_wallet"
  /\ UNCHANGED <<op, params, signers, result, confirm, heap, other>>

\* instructions.js 257-259: the wallet returned the signed transaction; it is
\* serialized (which verifies the signatures) and sent.
SignAndSend_WalletSigned ==
  /\ pc = "sas_wallet"
  /\ \E sigs \in WalletAnswers(transaction) :
       LET signed == [transaction EXCEPT !.signatures = sigs]
           tr == Append(Append(trace,
                               Return("signTransaction", Undefined, NullInfo)),
                        Call("serialize", Undefined))
       IN  /\ transaction' = signed
           /\ IF HasUndefinedKey(signed)
              THEN Finish(Thrown(TypeError), tr)
              ELSE IF RequiredSigners(signed) \subseteq sigs
              THEN /\ trace' = Append(tr, Call("sendRawTransaction", Undefined))
                   /\ pc' = "sas_send"
                   /\ UNCHANGED result
              ELSE Finish(Thrown(SignatureVerificationFailed), tr)
  /\ UNCHANGED <<op, params, signers, confirm, heap, other>>

\* Mutant: the submission protocol starts polling for confirmation itself
\* before it returns.
SignAndSend_Sent_ThenPolls ==
  /\ pc = "sas_send"
  /\ confirm.status = "idle"
  /\ trace' = Append(Append(trace,
                            Return("sendRawTransaction", Undefined, NullInfo)),
                     Call("confirmTransaction", K("signature")))
  /\ confirm' = [maxRetries |-> 1, i |-> 0, status |-> "polling", value |-> ""]
  /\ UNCHANGED <<pc, op, params, transaction, signers, result, heap, other>>

\* instructions.js 259-262: sendRawTransaction resolved with the transaction
\* id, which signAndSendTransaction and the operation return.
SignAndSend_Sent ==
  /\ pc = "sas_send"
  /\ Finish(Returned("signature"),
            Append(trace, Return("sendRawTransaction", Undefined, NullInfo)))
  /\ UNCHANGED <<op, params, transaction, signers, confirm, heap, other>>

\* Mutant: a rejected sendRawTransaction is sent again, once.
SignAndSend_Rejects_Resends ==
  /\ pc \in {"sas_blockhash", "sas_wallet", "sas_send"}
  /\ LET tr == Append(trace, Throw(trace[Len(trace)].fn, Undefined))
     IN  IF pc = "sas_send" /\ trace[Len(trace) - 1].fn # "sendRawTransaction"
         THEN /\ trace' = Append(tr, Call("sendRawTransaction", Undefined))
              /\ UNCHANGED <<pc, result>>
         ELSE Finish(Thrown(CollaboratorError), tr)
  /\ UNCHANGED <<op, params, transaction, signers, confirm, heap, other>>

\* A collaborator of the submission protocol rejects: the error propagates.
SignAndSend_Rejects ==
  /\ pc \in {"sas_blockhash", "sas_wallet", "sas_send"}
  /\ Finish(Thrown(CollaboratorError),
            Append(trace, Throw(trace[Len(trace)].fn, Undefined)))
  /\ UNCHANGED <<op, params, transaction, signers, confirm, heap, other>>

\* ----------------------------------------------------------------- mint.js

\* data.js MINT_LAYOUT.span and ACCOUNT_LAYOUT.span: the sizes of the mint and
\* token-account records.
MINT_LAYOUT_span == 82
ACCOUNT_LAYOUT_span == 165

\* What getMinimumBalanceForRentExemption may resolve to.
RentAnswers == 0..MaxLamports

\* mint.js 33-52: the instructions every mint creation starts with.
MintHead(lamports, decimals) ==
  TxAdd(TxAdd(NewTransaction,
              <<SystemCreateAccount(WalletKey, MintKey, lamports,
                                    MINT_LAYOUT_span, TOKEN_PROGRAM_ID)>>),
        <<initializeMint(MintKey, decimals, WalletKey, Undefined)>>)

\* mint.js 54-80: the instructions added when an initial amount is minted.
MintTail(tx, initialAccount, lamports, amount) ==
  TxAdd(TxAdd(TxAdd(tx,
                    <<SystemCreateAccount(WalletKey, initialAccount, lamports,
                                          ACCOUNT_LAYOUT_span,
                                          TOKEN_PROGRAM_ID)>>),
              <<initializeAccount(initialAccount, MintKey, WalletKey)>>),
        <<mintTo(MintKey, initialAccount, amount, WalletKey)>>)

\* Mutant: amount >= 0.
MintsInitialAmount_NonNegative(amount) == amount >= 0

\* mint.js 53: whether the initial-account branch is taken.
MintsInitialAmount(amount) == amount > 0

\* createAndInitializeMint is called: it asks for the mint's rent and suspends.
CallCreateAndInitializeMint ==
  /\ pc = "idle"
  /\ \E a \in Amounts, d \in DecimalsSet,
        ia \in {Undefined, InitialAccountKey} :
       params' = [NoParams EXCEPT !.amount = a, !.decimals = d,
                                  !.initialAccount = ia]
  /\ op' = "createAndInitializeMint"
  /\ trace' = Append(trace, Call("getMinimumBalanceForRentExemption", MintKey))
  /\ pc' = "cim_mintRent"
  /\ UNCHANGED <<transaction, signers, result, confirm, heap, other>>

\* mint.js 34-65: the mint's rent resolved and createAccount is added; then
\* initializeMint is built, which throws on a decimals the layout cannot
\* encode.  With an initial amount the new account's key is read (a TypeError
\* when it was not supplied) and its rent is asked for; without one the
\* transaction is submitted.
CreateAndInitializeMint_MintRent ==
  /\ pc = "cim_mintRent"
  /\ \E lamports \in RentAnswers :
       LET tx == MintHead(lamports, params.decimals)
           tr == Append(trace, Return("getMinimumBalanceForRentExemption",
                                      MintKey, NullInfo))
       IN  IF ~u8InRange(params.decimals)
           THEN /\ Finish(Thrown(EncodingError), tr)
                /\ transaction' =
                     TxAdd(NewTransaction,
                           <<SystemCreateAccount(WalletKey, MintKey, lamports,
                                                 MINT_LAYOUT_span,
                                                 TOKEN_PROGRAM_ID)>>)
                /\ UNCHANGED signers
           ELSE IF MintsInitialAmount(params.amount)
           THEN IF params.initialAccount = Undefined
                THEN /\ Finish(Thrown(TypeError), tr)
                     /\ transaction' = tx
                     /\ signers' = <<MintKey>>
                ELSE /\ transaction' = tx
                     /\ signers' = <<MintKey>>
                     /\ trace' = Append(tr,
                          Call("getMinimumBalanceForRentExemption",
                               params.initialAccount))
                     /\ pc' = "cim_accountRent"
                     /\ UNCHANGED result
           ELSE EnterSignAndSend(tx, <<MintKey>>, tr)
  /\ UNCHANGED <<op, params, confirm, heap, other>>

\* Mutant: signers.push(initialAccount) left out.
CreateAndInitializeMint_AccountRent_NoPush ==
  /\ pc = "cim_accountRent"
  /\ \E lamports \in RentAnswers :
       EnterSignAndSend(
         MintTail(transaction, params.initialAccount, lamports, params.amount),
         signers,
         Append(trace, Return("getMinimumBalanceForRentExemption",
                              params.initialAccount, NullInfo)))
  /\ UNCHANGED <<op, params, confirm, heap, other>>

\* mint.js 54-82: the initial account's rent resolved.
CreateAndInitializeMint_AccountRent ==
  /\ pc = "cim_accountRent"
  /\ \E lamports \in RentAnswers :
       EnterSignAndSend(
         MintTail(transaction, params.initialAccount, lamports, params.amount),
         Append(signers, params.initialAccount),
         Append(trace, Return("getMinimumBalanceForRentExemption",
                              params.initialAccount, NullInfo)))
  /\ UNCHANGED <<op, params, confirm, heap, other>>

\* mint.js 85-104
mintMoreTokensTx(mint, destination, amount, mintAuthority) ==
  TxAdd(NewTransaction, <<mintTo(mint, destination, amount, mintAuthority)>>)

CallMintMoreTokens ==
  /\ pc = "idle"
  /\ \E a \in Amounts : params' = [NoParams EXCEPT !.amount = a]
  /\ op' = "mintMoreTokens"
  /\ EnterSignAndSend(
       mintMoreTokensTx(MintKey, TokenAccountKey, params'.amount, WalletKey),
       <<>>, trace)
  /\ UNCHANGED <<confirm, heap, other>>

\* mint.js 106-147: the first statement, Keypair.generate(), names a binding
\* the module neither imports (mint.js 4-22) nor declares: evaluating it throws
\* a ReferenceError before anything is built or any call is made.
CallMintMoreTokensWithNewAccount ==
  /\ pc = "idle"
  /\ \E a \in Amounts : params' = [NoParams EXCEPT !.amount = a]
  /\ op' = "mintMoreTokensWithNewAccount"
  /\ Finish(Thrown(ReferenceError), trace)
  /\ UNCHANGED <<transaction, signers, confirm, heap, other>>

\* ------------------------------------------------- burn.js (unnamed/part_000)

\* burn.js 20-39
burnTokensTx(owner, tokenAccount, mint, amount) ==
  TxAdd(NewTransaction, <<burn(tokenAccount, mint, amount, owner)>>)

\* Mutant: closeAccount appended whatever closeIfEmpty says.
burnTokensAndCloseTx_AlwaysCloses(owner, tokenAccount, mint, amount, closeIfEmpty) ==
  TxAdd(TxAdd(NewTransaction, <<burn(tokenAccount, mint, amount, owner)>>),
        <<closeAccount(tokenAccount, owner, owner)>>)

\* burn.js 52-82: burn, then closeAccount when closeIfEmpty is set.
burnTokensAndCloseTx(owner, tokenAccount, mint, amount, closeIfEmpty) ==
  LET t == TxAdd(NewTransaction, <<burn(tokenAccount, mint, amount, owner)>>)
  IN  IF closeIfEmpty
      THEN TxAdd(t, <<closeAccount(tokenAccount, owner, owner)>>)
      ELSE t

CallBurnTokens ==
  /\ pc = "idle"
  /\ \E a \in Amounts : params' = [NoParams EXCEPT !.amount = a]
  /\ op' = "burnTokens"
  /\ EnterSignAndSend(
       burnTokensTx(WalletKey, TokenAccountKey, MintKey, params'.amount),
       <<>>, trace)
  /\ UNCHANGED <<confirm, heap, other>>

CallBurnTokensAndClose ==
  /\ pc = "idle"
  /\ \E a \in Amounts, c \in BOOLEAN :
       params' = [NoParams EXCEPT !.amount = a, !.closeIfEmpty = c]
  /\ op' = "burnTokensAndClose"
  /\ EnterSignAndSend(
       burnTokensAndCloseTx(WalletKey, TokenAccountKey, MintKey,
                            params'.amount, params'.closeIfEmpty),
       <<>>, trace)
  /\ UNCHANGED <<confirm, heap, other>>

\* Mutant: amount === 0, a BigInt compared with a Number, never true.
HasZeroBalance_NumberCompare(amount) == FALSE

\* burn.js 110: the guard of burnAllTokens on the decoded balance.
HasZeroBalance(amount) == amount = 0

\* burnAllTokens is called: it reads the token account and suspends.
CallBurnAllTokens ==
  /\ pc = "idle"
  /\ \E c \in BOOLEAN : params' = [NoParams EXCEPT !.closeIfEmpty = c]
  /\ op' = "burnAllTokens"
  /\ trace' = Append(trace, Call("getAccountInfo", TokenAccountKey))
  /\ pc' = "bat_accountInfo"
  /\ UNCHANGED <<transaction, signers, result, confirm, heap, other>>

\* Mutant: one token burnt instead of the balance read.
BurnAllTokens_AccountInfo_BurnsOne ==
  /\ pc = "bat_accountInfo"
  /\ \E accountInfo \in TokenAccountInfos :
       LET tr == Append(trace, Return("getAccountInfo", TokenAccountKey,
                                      accountInfo))
       IN  IF ~accountInfo.exists
           THEN /\ Finish(Thrown(AccountNotFound), tr)
                /\ UNCHANGED <<transaction, signers>>
           ELSE IF HasZeroBalance(parseTokenAccountData(accountInfo.data).amount)
           THEN /\ Finish(Thrown(ZeroBalance), tr)
                /\ UNCHANGED <<transaction, signers>>
           ELSE EnterSignAndSend(
                  burnTokensAndCloseTx(WalletKey, TokenAccountKey, MintKey, 1,
                                       params.closeIfEmpty),
                  <<>>, tr)
  /\ UNCHANGED <<op, params, confirm, heap, other>>

\* burn.js 102-121: the read resolved.
BurnAllTokens_AccountInfo ==
  /\ pc = "bat_accountInfo"
  /\ \E accountInfo \in TokenAccountInfos :
       LET tr == Append(trace, Return("getAccountInfo", TokenAccountKey,
                                      accountInfo))
       IN  IF ~accountInfo.exists
           THEN /\ Finish(Thrown(AccountNotFound), tr)
                /\ UNCHANGED <<transaction, signers>>
           ELSE LET amount == parseTokenAccountData(accountInfo.data).amount
                IN  IF HasZeroBalance(amount)
                    THEN /\ Finish(Thrown(ZeroBalance), tr)
                         /\ UNCHANGED <<transaction, signers>>
                    ELSE EnterSignAndSend(
                           burnTokensAndCloseTx(WalletKey, TokenAccountKey,
                                                MintKey, amount,
                                                params.closeIfEmpty),
                           <<>>, tr)
  /\ UNCHANGED <<op, params, confirm, heap, other>>

\* The getAccountInfo of burnAllTokens rejects.
BurnAllTokens_QueryRejects ==
  /\ pc = "bat_accountInfo"
  /\ Finish(Thrown(CollaboratorError),
            Append(trace, Throw("getAccountInfo", TokenAccountKey)))
  /\ UNCHANGED <<op, params, transaction, signers, confirm, heap, other>>

\* -------------------------------------------------------------- balance.js

\* The object a balance query returns, as the text of its amount (or supply)
\* and decimals fields; uiAmount is their quotient and is left out.
BalanceObject(amount, decimals) ==
  ToString([amount |-> amount, decimals |-> decimals])

\* balance.js 33-34: getTokenAccountBalance reads the token account.
CallGetTokenAccountBalance ==
  /\ pc = "idle"
  /\ params' = NoParams
  /\ op' = "getTokenAccountBalance"
  /\ trace' = Append(trace, Call("getAccountInfo", TokenAccountKey))
  /\ pc' = "gtab_accountInfo"
  /\ UNCHANGED <<transaction, signers, result, confirm, heap, other>>

\* balance.js 36-41: a missing token account throws; otherwise the mint the
\* account names is read.
GetTokenAccountBalance_AccountInfo ==
  /\ pc = "gtab_accountInfo"
  /\ \E accountInfo \in TokenAccountInfos :
       LET tr == Append(trace, Return("getAccountInfo", TokenAccountKey,
                                      accountInfo))
       IN  IF ~accountInfo.exists
           THEN Finish(Thrown(AccountNotFound), tr)
           ELSE /\ trace' = Append(tr, Call("getAccountInfo",
                      PublicKeyOf(parseTokenAccountData(accountInfo.data).mint)))
                /\ pc' = "gtab_mintInfo"
                /\ UNCHANGED result
  /\ UNCHANGED <<op, params, transaction, signers, confirm, heap, other>>

\* balance.js 42-53: the mint read resolved.  mintInfo.data is read with no
\* test of mintInfo: on a missing mint that is a property read of null.
GetTokenAccountBalance_MintInfo ==
  /\ pc = "gtab_mintInfo"
  /\ \E mintInfo \in MintInfos :
       LET tokenData == parseTokenAccountData(trace[2].info.data)
           tr == Append(trace, Return("getAccountInfo", trace[3].key, mintInfo))
       IN  IF ~mintInfo.exists
           THEN Finish(Thrown(TypeError), tr)
           ELSE Finish(Returned(BalanceObject(
                         tokenData.amount, parseMintData(mintInfo.data).decimals)),
                       tr)
  /\ UNCHANGED <<op, params, transaction, signers, confirm, heap, other>>

\* balance.js 107-118: getAssociatedTokenBalance derives the wallet's
\* associated address under the token program and reads it.
CallGetAssociatedTokenBalance ==
  /\ pc = "idle"
  /\ params' = NoParams
  /\ op' = "getAssociatedTokenBalance"
  /\ trace' = Append(trace, Call("getAccountInfo",
                 FindProgramAddress(<<WalletKey, TOKEN_PROGRAM_ID, MintKey>>,
                                    ASSOCIATED_TOKEN_PROGRAM_ID)))
  /\ pc' = "gatb_accountInfo"
  /\ UNCHANGED <<transaction, signers, result, confirm, heap, other>>

\* balance.js 120-125: a missing associated account is answered with null;
\* otherwise the mint is read.
GetAssociatedTokenBalance_AccountInfo ==
  /\ pc = "gatb_accountInfo"
  /\ \E accountInfo \in TokenAccountInfos :
       LET tr == Append(trace, Return("getAccountInfo", trace[1].key,
                                      accountInfo))
       IN  IF ~accountInfo.exists
           THEN Finish(Returned("null"), tr)
           ELSE /\ trace' = Append(tr, Call("getAccountInfo", MintKey))
                /\ pc' = "gatb_mintInfo"
                /\ UNCHANGED result
  /\ UNCHANGED <<op, params, transaction, signers, confirm, heap, other>>

\* balance.js 125-133: the mint read resolved; mintInfo.data is read with no
\* test of mintInfo.
GetAssociatedTokenBalance_MintInfo ==
  /\ pc = "gatb_mintInfo"
  /\ \E mintInfo \in MintInfos :
       LET tokenData == parseTokenAccountData(trace[2].info.data)
           tr == Append(trace, Return("getAccountInfo", MintKey, mintInfo))
       IN  IF ~mintInfo.exists
           THEN Finish(Thrown(TypeError), tr)
           ELSE Finish(Returned(BalanceObject(
                         tokenData.amount, parseMintData(mintInfo.data).decimals)),
                       tr)
  /\ UNCHANGED <<op, params, transaction, signers, confirm, heap, other>>

\* balance.js 141-142: getMintSupply reads the mint.
CallGetMintSupply ==
  /\ pc = "idle"
  /\ params' = NoParams
  /\ op' = "getMintSupply"
  /\ trace' = Append(trace, Call("getAccountInfo", MintKey))
  /\ pc' = "gms_mintInfo"
  /\ UNCHANGED <<transaction, signers, result, confirm, heap, other>>

\* balance.js 144-156: a missing mint throws; otherwise the decoded supply
\* and decimals are returned.
GetMintSupply_MintInfo ==
  /\ pc = "gms_mintInfo"
  /\ \E mintInfo \in MintInfos :
       LET tr == Append(trace, Return("getAccountInfo", MintKey, mintInfo))
       IN  IF ~mintInfo.exists
           THEN Finish(Thrown(MintNotFound), tr)
           ELSE Finish(Returned(BalanceObject(
                         parseMintData(mintInfo.data).supply,
                         parseMintData(mintInfo.data).decimals)),
                       tr)
  /\ UNCHANGED <<op, params, transaction, signers, confirm, heap, other>>

\* A getAccountInfo of a balance query rejects: the error propagates.
Balance_QueryRejects ==
  /\ pc \in {"gtab_accountInfo", "gtab_mintInfo", "gatb_accountInfo",
              "gatb_mintInfo", "gms_mintInfo"}
  /\ Finish(Thrown(CollaboratorError),
            Append(trace, Throw("getAccountInfo", trace[Len(trace)].key)))
  /\ UNCHANGED <<op, params, transaction, signers, confirm, heap, other>>

\* ------------------------------------------- transfer.js, other operations

\* transfer.js 22-31
nativeTransferTx(fromPubkey, destination, amount) ==
  TxAdd(NewTransaction, <<SystemTransfer(fromPubkey, destination, amount)>>)

CallNativeTransfer ==
  /\ pc = "idle"
  /\ \E a \in Amounts : params' = [NoParams EXCEPT !.amount = a]
  /\ op' = "nativeTransfer"
  /\ EnterSignAndSend(
       nativeTransferTx(WalletKey, DestinationKey, params'.amount),
       <<>>, trace)
  /\ UNCHANGED <<confirm, heap, other>>

\* transfer.js 319-340
closeTokenAccountTx(owner, sourcePublicKey) ==
  TxAdd(NewTransaction, <<closeAccount(sourcePublicKey, owner, owner)>>)

CallCloseTokenAccount ==
  /\ pc = "idle"
  /\ \E sp \in BOOLEAN : params' = [NoParams EXCEPT !.skipPreflight = sp]
  /\ op' = "closeTokenAccount"
  /\ EnterSignAndSend(closeTokenAccountTx(WalletKey, SourceKey), <<>>, trace)
  /\ UNCHANGED <<confirm, heap, other>>

\* transfer.js 115-133
createAndInitializeTokenAccountTx(payer, mintPublicKey, newAccount, lamports) ==
  TxAdd(TxAdd(NewTransaction,
              <<SystemCreateAccount(payer, newAccount, lamports,
                                    ACCOUNT_LAYOUT_span, TOKEN_PROGRAM_ID)>>),
        <<initializeAccount(newAccount, mintPublicKey, payer)>>)

\* createAndInitializeTokenAccount is called: it asks for the rent and suspends.
CallCreateAndInitializeTokenAccount ==
  /\ pc = "idle"
  /\ params' = NoParams
  /\ op' = "createAndInitializeTokenAccount"
  /\ trace' = Append(trace,
                     Call("getMinimumBalanceForRentExemption", NewAccountKey))
  /\ pc' = "cita_rent"
  /\ UNCHANGED <<transaction, signers, result, confirm, heap, other>>

\* transfer.js 116-136: the rent resolved.
CreateAndInitializeTokenAccount_Rent ==
  /\ pc = "cita_rent"
  /\ \E lamports \in RentAnswers :
       EnterSignAndSend(
         createAndInitializeTokenAccountTx(WalletKey, MintKey, NewAccountKey,
                                           lamports),
         <<NewAccountKey>>,
         Append(trace, Return("getMinimumBalanceForRentExemption",
                              NewAccountKey, NullInfo)))
  /\ UNCHANGED <<op, params, confirm, heap, other>>

\* A getMinimumBalanceForRentExemption rejects: the error propagates.
Rent_Rejects ==
  /\ pc \in {"cim_mintRent", "cim_accountRent", "cita_rent"}
  /\ Finish(Thrown(CollaboratorError),
            Append(trace, Throw("getMinimumBalanceForRentExemption",
                                trace[Len(trace)].key)))
  /\ UNCHANGED <<op, params, transaction, signers, confirm, heap, other>>

\* -------------------------------- production_test.js confirmTransaction

\* What one connection.confirmTransaction poll may yield: a result without
\* error, a result carrying an on-chain error, or a rejection (timeout).
PollAnswers == {"confirmed", "err", "timeout"}

\* The transaction id an operation returned, as the key of the polls on it.
TxId(res) == K(res.value)

\* The result object of a poll: value.err is set or null.
PollResult(answer) ==
  IF answer = "err" THEN AccountInfo(Undefined, 0, <<>>) ELSE NullInfo

\* The errors confirmTransaction can end with: the one it throws itself on a
\* result carrying value.err, and the rejection of the poll.
TransactionFailed == "Transaction failed"

\* production_test.js 52: the loop condition.
LoopContinues(i, maxRetries) == i < maxRetries

\* Mutant: the rethrow test off by one, so that no attempt is the last.
IsLastAttempt_OffByOne(i, maxRetries) == i = maxRetries

\* production_test.js 60: whether the catch block rethrows.
IsLastAttempt(i, maxRetries) == i = maxRetries - 1

\* The harness got a signature from an operation and confirms it
\* (production_test.js 154, 195, 232, 317).
CallConfirmTransaction ==
  /\ pc = "done"
  /\ result = Returned("signature")
  /\ confirm.status = "idle"
  /\ \E maxRetries \in (-1)..MaxRetries :
       IF LoopContinues(0, maxRetries)
       THEN /\ confirm' = [maxRetries |-> maxRetries, i |-> 0,
                           status |-> "polling", value |-> ""]
            /\ trace' = Append(trace, Call("confirmTransaction", TxId(result)))
       ELSE /\ confirm' = [maxRetries |-> maxRetries, i |-> 0,
                           status |-> "returned", value |-> "undefined"]
            /\ UNCHANGED trace
  /\ UNCHANGED <<pc, op, params, transaction, signers, result, heap, other>>

\* Mutant: return result left out, so that a successful poll falls through to
\* the next round of the loop.
ConfirmTransaction_Poll_NoReturn ==
  /\ confirm.status = "polling"
  /\ \E answer \in PollAnswers :
       LET tr == Append(trace,
                   IF answer = "timeout"
                   THEN Throw("confirmTransaction", TxId(result))
                   ELSE Return("confirmTransaction", TxId(result),
                               PollResult(answer)))
       IN  IF answer # "confirmed"
              /\ IsLastAttempt(confirm.i, confirm.maxRetries)
           THEN /\ confirm' = [confirm EXCEPT !.status = "thrown",
                                 !.value = IF answer = "err"
                                           THEN TransactionFailed
                                           ELSE CollaboratorError]
                /\ trace' = tr
           ELSE /\ confirm' = [confirm EXCEPT !.status = "sleeping"]
                /\ trace' = IF answer = "confirmed" THEN tr
                            ELSE Append(tr, Call("setTimeout", Undefined))
  /\ UNCHANGED <<pc, op, params, transaction, signers, result, heap, other>>

\* production_test.js 54-61: one poll ends.  A result without error is
\* returned; a result with value.err makes the try block throw, and that
\* throw, like a rejection of the poll, lands in the catch block, which
\* rethrows on the last attempt and otherwise starts the 2 s delay.
ConfirmTransaction_Poll ==
  /\ confirm.status = "polling"
  /\ \E answer \in PollAnswers :
       LET tr == Append(trace,
                   IF answer = "timeout"
                   THEN Throw("confirmTransaction", TxId(result))
                   ELSE Return("confirmTransaction", TxId(result),
                               PollResult(answer)))
       IN  IF answer = "confirmed"
           THEN /\ confirm' = [confirm EXCEPT !.status = "returned",
                                 !.value = "result"]
                /\ trace' = tr
           ELSE IF IsLastAttempt(confirm.i, confirm.maxRetries)
           THEN /\ confirm' = [confirm EXCEPT !.status = "thrown",
                                 !.value = IF answer = "err"
                                           THEN TransactionFailed
                                           ELSE CollaboratorError]
                /\ trace' = tr
           ELSE /\ confirm' = [confirm EXCEPT !.status = "sleeping"]
                /\ trace' = Append(tr, Call("setTimeout", Undefined))
  /\ UNCHANGED <<pc, op, params, transaction, signers, result, heap, other>>

\* production_test.js 61, 52: the 2 s delay elapsed; the loop goes round.
ConfirmTransaction_Wake ==
  /\ confirm.status = "sleeping"
  /\ IF LoopContinues(confirm.i + 1, confirm.maxRetries)
     THEN /\ confirm' = [confirm EXCEPT !.i = @ + 1, !.status = "polling"]
          /\ trace' = Append(trace, Call("confirmTransaction", TxId(result)))
     ELSE /\ confirm' = [confirm EXCEPT !.i = @ + 1, !.status = "returned",
                            !.value = "undefined"]
          /\ UNCHANGED trace
  /\ UNCHANGED <<pc, op, params, transaction, signers, result, heap, other>>

\* ------------------------------------------------------------ specification

Next ==
  \/ CallTransferTokens
  \/ CallCreateAssociatedTokenAccount
  \/ TransferTokens_DestinationInfo
  \/ TransferTokens_AssociatedInfo
  \/ TransferTokens_QueryRejects
  \/ CallCreateAndInitializeMint
  \/ CreateAndInitializeMint_MintRent
  \/ CreateAndInitializeMint_AccountRent
  \/ CallMintMoreTokens
  \/ CallMintMoreTokensWithNewAccount
  \/ CallBurnTokens
  \/ CallBurnTokensAndClose
  \/ CallBurnAllTokens
  \/ BurnAllTokens_AccountInfo
  \/ BurnAllTokens_QueryRejects
  \/ CallGetTokenAccountBalance
  \/ GetTokenAccountBalance_AccountInfo
  \/ GetTokenAccountBalance_MintInfo
  \/ CallGetAssociatedTokenBalance
  \/ GetAssociatedTokenBalance_AccountInfo
  \/ GetAssociatedTokenBalance_MintInfo
  \/ CallGetMintSupply
  \/ GetMintSupply_MintInfo
  \/ Balance_QueryRejects
  \/ CallNativeTransfer
  \/ CallCloseTokenAccount
  \/ CallCreateAndInitializeTokenAccount
  \/ CreateAndInitializeTokenAccount_Rent
  \/ Rent_Rejects
  \/ SignAndSend_Blockhash
  \/ SignAndSend_WalletSigned
  \/ SignAndSend_Sent
  \/ SignAndSend_Rejects
  \/ CallConfirmTransaction
  \/ ConfirmTransaction_Poll
  \/ ConfirmTransaction_Wake

Spec == Init /\ [][Next]_vars

\* The confirmation loop under the scheduling the runtime gives it: a pending
\* connection.confirmTransaction promise settles (the client times the poll
\* out itself) and the timer of the 2 s delay fires.
LiveSpec ==
  Spec /\ WF_vars(ConfirmTransaction_Poll) /\ WF_vars(ConfirmTransaction_Wake)

\* ------------------------------------------- the pure functions, called alone

\* The 64-bit amounts a caller encodes: 0, 1, 2^32 and 2^64 - 1.
CodecAmounts ==
  {<<0, 0, 0, 0>>, <<1, 0, 0, 0>>, <<0, 0, 1, 0>>,
   <<65535, 65535, 65535, 65535>>}

\* The source objects handed to the encoder: for every variant, every choice
\* of the fields its struct encodes (the others are ignored and left at their
\* defaults).
CodecInputs ==
  {Source("initializeMint", d, ma, fa, 0) :
     d \in {0, 9, 255}, ma \in {WalletKey, MintKey},
     fa \in {Undefined, WalletKey}}
  \cup {[Source(v, 0, PublicKeyDefault, Undefined, 0) EXCEPT !.amount = a] :
          v \in {"mintTo", "burn"}, a \in CodecAmounts}
  \cup {[Source("transferChecked", d, PublicKeyDefault, Undefined, 0)
           EXCEPT !.amount = a] : d \in {0, 9, 255}, a \in CodecAmounts}
  \cup {Source(v, 0, PublicKeyDefault, Undefined, 0) :
          v \in {"initializeAccount", "closeAccount"}}

\* The encoder calls a caller may make one after the other.
EncoderOps == {"encodeTokenInstructionData", "encodeOwnerValidationInstruction"}

\* What a call of an encoder leaves in the trace: the Buffer returned and the
\* bytes the caller read through it when the call returned.
Encoded(fn, view, bytes) ==
  Ev(fn, "return", Undefined, [view |-> view, bytes |-> bytes])

\* instructions.js 86-90 called on one source object, after any encoder calls
\* made before.
ApplyEncode ==
  /\ pc = "idle"
  /\ op \in {"none"} \cup EncoderOps
  /\ Len(trace) < MaxCalls
  /\ \E src \in CodecInputs :
       LET r == encodeTokenInstructionDataOn(heap, src)
       IN  /\ params' = src
           /\ heap' = r.heap
           /\ result' = Returned(encodeTokenInstructionData(src))
           /\ trace' = Append(trace,
                          Encoded("encodeTokenInstructionData", r.view,
                                  ViewBytes(r.heap, r.view)))
  /\ op' = "encodeTokenInstructionData"
  /\ UNCHANGED <<pc, transaction, signers, confirm, other>>

\* instructions.js 222-226 called on one key, after any encoder calls made
\* before.
ApplyEncodeOwnerValidation ==
  /\ pc = "idle"
  /\ op \in {"none"} \cup EncoderOps
  /\ Len(trace) < MaxCalls
  /\ \E account \in {WalletKey, MintKey} :
       LET r == encodeOwnerValidationInstructionOn(heap, account)
       IN  /\ params' = [account |-> account]
           /\ heap' = r.heap
           /\ result' = Returned(encodeOwnerValidationInstruction(account))
           /\ trace' = Append(trace,
                          Encoded("encodeOwnerValidationInstruction", r.view,
                                  ViewBytes(r.heap, r.view)))
  /\ op' = "encodeOwnerValidationInstruction"
  /\ UNCHANGED <<pc, transaction, signers, confirm, other>>

Builders ==
  {"initializeMint", "initializeAccount", "transferChecked", "mintTo",
   "closeAccount", "burn", "memoInstruction", "assertOwner"}

\* The argument objects handed to the instruction builders.
BuilderInputs ==
  [builder : Builders, account : {SourceKey, TokenAccountKey},
   mint : {MintKey}, destination : {DestinationKey, NewAccountKey},
   owner : {WalletKey, InitialAccountKey}, amount : {0, MaxAmount},
   decimals : {9}, memo : {<<>>, <<109, 233>>},
   programId : {TOKEN_PROGRAM_ID, BTCI_PROGRAM_ID}]

\* The instruction a builder of instructions.js returns for an argument object.
Build(a) ==
  CASE a.builder = "initializeMint" ->
         initializeMint(a.mint, a.decimals, a.owner, Undefined)
    [] a.builder = "initializeAccount" ->
         initializeAccount(a.account, a.mint, a.owner)
    [] a.builder = "transferChecked" ->
         transferChecked(a.account, a.mint, a.destination, a.amount,
                         a.decimals, a.owner, a.programId)
    [] a.builder = "mintTo" -> mintTo(a.mint, a.destination, a.amount, a.owner)
    [] a.builder = "closeAccount" ->
         closeAccount(a.account, a.destination, a.owner)
    [] a.builder = "burn" -> burn(a.account, a.mint, a.amount, a.owner)
    [] a.builder = "memoInstruction" -> memoInstruction(a.memo)
    [] a.builder = "assertOwner" -> assertOwner(a.account, a.owner)

\* instructions.js 92-194, 228-235, 265-280: one builder called on its own.
ApplyBuilder ==
  /\ pc = "idle" /\ op = "none"
  /\ \E a \in BuilderInputs :
       /\ params' = a
       /\ result' = Returned(Build(a))
  /\ op' = "builder"
  /\ pc' = "done"
  /\ UNCHANGED <<transaction, signers, trace, confirm, heap, other>>

\* ------------------------------------------------- two operations at once

\* The locals of the operation that is running.
Locals ==
  [pc |-> pc, op |-> op, params |-> params, transaction |-> transaction,
   signers |-> signers, trace |-> trace, result |-> result]

\* Mutant: the two operations compose into one Transaction object, which
\* stays where it is when the other operation resumes.
Switch_SharedTransaction ==
  /\ other # Locals
  /\ pc' = other.pc
  /\ op' = other.op
  /\ params' = other.params
  /\ signers' = other.signers
  /\ trace' = other.trace
  /\ result' = other.result
  /\ other' = Locals
  /\ UNCHANGED <<transaction, confirm, heap>>

\* JavaScript runs one async function until its next await; there the event
\* loop may resume the other operation, which finds its own locals
\* (instructions.js 237-263, transfer.js 33-107, mint.js, burn.js: every
\* operation works on its parameters and on objects it created itself).
Switch ==
  /\ other # Locals
  /\ pc' = other.pc
  /\ op' = other.op
  /\ params' = other.params
  /\ transaction' = other.transaction
  /\ signers' = other.signers
  /\ trace' = other.trace
  /\ result' = other.result
  /\ other' = Locals
  /\ UNCHANGED <<confirm, heap>>

\* A transfer that was called and awaits its first query (transfer.js 45):
\* the state CallTransferTokens leaves.
StartedTransfer(amount, memo, programId) ==
  [NoOperation EXCEPT
     !.pc = "tt_destinationInfo",
     !.op = "transferTokens",
     !.params = [NoParams EXCEPT !.amount = amount, !.decimals = 9,
                                 !.memo = memo, !.programId = programId],
     !.trace = <<Call("getAccountInfo", DestinationKey)>>]

\* A burnAllTokens that was called and awaits its read (burn.js 102): the
\* state CallBurnAllTokens leaves.
StartedBurnAll ==
  [NoOperation EXCEPT
     !.pc = "bat_accountInfo",
     !.op = "burnAllTokens",
     !.params = [NoParams EXCEPT !.closeIfEmpty = TRUE],
     !.trace = <<Call("getAccountInfo", TokenAccountKey)>>]

\* A caller started a transfer or a burnAllTokens and, without awaiting it,
\* either started an unrelated transfer or is about to call another
\* operation.
ConcurrentInit ==
  /\ other \in {StartedTransfer(1, NoMemo, Undefined), StartedBurnAll}
  /\ \E first \in {NoOperation,
                    StartedTransfer(MaxAmount, NoMemo, BTCI_PROGRAM_ID)} :
       /\ pc = first.pc
       /\ op = first.op
       /\ params = first.params
       /\ transaction = first.transaction
       /\ signers = first.signers
       /\ trace = first.trace
       /\ result = first.result
  /\ confirm = ConfirmIdle
  /\ heap = <<>>

ConcurrentNext ==
  \/ Switch
  \/ TransferTokens_DestinationInfo
  \/ TransferTokens_AssociatedInfo
  \/ TransferTokens_QueryRejects
  \/ CallCreateAndInitializeMint
  \/ CreateAndInitializeMint_MintRent
  \/ CreateAndInitializeMint_AccountRent
  \/ CallMintMoreTokens
  \/ CallBurnTokens
  \/ CallBurnTokensAndClose
  \/ CallBurnAllTokens
  \/ BurnAllTokens_AccountInfo
  \/ BurnAllTokens_QueryRejects
  \/ CallNativeTransfer
  \/ CallCloseTokenAccount
  \/ CallCreateAndInitializeTokenAccount
  \/ CreateAndInitializeTokenAccount_Rent
  \/ Rent_Rejects
  \/ SignAndSend_Blockhash
  \/ SignAndSend_WalletSigned
  \/ SignAndSend_Sent
  \/ SignAndSend_Rejects

\* Two operations of one process whose steps interleave at their awaits.
ConcurrentSpec == ConcurrentInit /\ [][ConcurrentNext]_vars

\* The (owner, mint, programId) triples addresses are derived for.
DerivationInputs ==
  [walletAddress : {WalletKey, DestinationKey}, tokenMintAddress : {MintKey, SourceKey},
   programId : {Undefined, TOKEN_PROGRAM_ID, BTCI_PROGRAM_ID}]

\* transfer.js 213-226 called on its own, any number of times in a row and
\* whatever was derived before; each call and its result are recorded.
ApplyFindAssociatedTokenAddress ==
  /\ pc = "idle"
  /\ op \in {"none", "findAssociatedTokenAddress"}
  /\ Len(trace) < MaxCalls
  /\ \E a \in DerivationInputs :
       trace' = Append(trace,
                  Ev("findAssociatedTokenAddress", "return",
                     findAssociatedTokenAddress(a.walletAddress,
                                                a.tokenMintAddress,
                                                a.programId),
                     a))
  /\ op' = "findAssociatedTokenAddress"
  /\ UNCHANGED <<pc, params, transaction, signers, result, confirm, heap, other>>

PureNext ==
  \/ ApplyEncode
  \/ ApplyEncodeOwnerValidation
  \/ ApplyBuilder
  \/ ApplyFindAssociatedTokenAddress

\* A caller that uses the library's pure functions alone.
PureSpec == Init /\ [][PureNext]_vars

\* ------------------------------------------------- reading a run's trace

\* How many times the run has called fn.
CallCount(fn) ==
  Cardinality({i \in 1..Len(trace) :
                 trace[i].fn = fn /\ trace[i].phase = "call"})

\* The run has entered signAndSendTransaction.
Submitting == CallCount("getRecentBlockhash") > 0

\* The i-th event is the resolution of a getAccountInfo.
IsReply(i) ==
  /\ i <= Len(trace)
  /\ trace[i].fn = "getAccountInfo"
  /\ trace[i].phase = "return"

\* The queried account exists and its owner is the transfer's programId.
OwnedByProgram(info) == info.exists /\ info.owner = ProgramIdOf(params)

\* The associated address of the transfer's destination, as the reference
\* derivation gives it: seeds (owner, token program, mint).
ExpectedAssociatedAddress ==
  [name |-> ASSOCIATED_TOKEN_PROGRAM_ID.name,
   seeds |-> <<DestinationKey.name, ProgramIdOf(params).name, MintKey.name>>]

\* The transferChecked instruction the transfer's parameters call for.
ExpectedTransfer(destination) ==
  transferChecked(SourceKey, MintKey, destination, params.amount,
                  params.decimals, WalletKey, ProgramIdOf(params))

MemoKinds == IF Truthy(params.memo) THEN <<"memo">> ELSE <<>>

\* The operation's decimals is a value the u8 field of the layout holds.
EncodableParams == u8InRange(params.decimals)

\* ------------------------------------------------------------------ claims

\* C1: whenever the first getAccountInfo(destinationPublicKey) returns an
\* account whose owner equals programId (and decimals is a value the layout
\* encodes), transferTokens has returned a
\* transaction holding exactly one transferChecked addressed to
\* destinationPublicKey itself, followed by one memo instruction iff a
\* (non-empty) memo was supplied; it made no second account query and built no
\* create-associated instruction.
C1_ExistingTokenAccount ==
  (/\ op = "transferTokens" /\ EncodableParams
   /\ IsReply(2) /\ OwnedByProgram(trace[2].info)) =>
    /\ pc = "done"
    /\ result = Returned("transaction")
    /\ Kinds(transaction.instructions) = <<"transferChecked">> \o MemoKinds
    /\ transaction.instructions[1] = ExpectedTransfer(DestinationKey)
    /\ CallCount("getAccountInfo") = 1
    /\ Len(trace) = 2

\* C1 witness: the routing took the direct path with a memo supplied.
C1_Witness ==
  /\ op = "transferTokens" /\ IsReply(2) /\ OwnedByProgram(trace[2].info)
  /\ params.programId = BTCI_PROGRAM_ID
  /\ Truthy(params.memo)
  /\ Len(transaction.instructions) = 2

\* C2: when the destination is not owned by programId, transferTokens fails
\* with DestinationUnfunded iff (the destination has no account or its
\* lamports are 0) and overrideDestinationCheck is unset; when it fails it has
\* queried nothing else and built no instruction; otherwise it goes on to
\* query the derived associated address.
C2_UnfundedGuard ==
  (op = "transferTokens" /\ IsReply(2) /\ ~OwnedByProgram(trace[2].info)) =>
    LET info == trace[2].info
        unfunded == (~info.exists \/ info.lamports = 0)
                      /\ ~params.overrideDestinationCheck
    IN  /\ (result = Thrown(DestinationUnfunded)) <=> unfunded
        /\ unfunded => /\ pc = "done"
                       /\ Len(trace) = 2
                       /\ transaction.instructions = <<>>
        /\ ~unfunded => /\ Len(trace) >= 3
                        /\ trace[3] = Call("getAccountInfo",
                                           ExpectedAssociatedAddress)

\* C2 witness: the guard fired for an existing destination with 0 lamports.
C2_Witness ==
  /\ op = "transferTokens" /\ result = Thrown(DestinationUnfunded)
  /\ IsReply(2) /\ trace[2].info.exists /\ trace[2].info.lamports = 0
  /\ ~params.overrideDestinationCheck

\* The premise of C3: the destination exists, is funded, is not owned by
\* programId, and its associated address holds no account owned by programId.
NeedsAssociatedAccount ==
  /\ op = "transferTokens" /\ EncodableParams
  /\ IsReply(2) /\ trace[2].info.exists /\ trace[2].info.lamports > 0
  /\ ~OwnedByProgram(trace[2].info)
  /\ IsReply(4) /\ ~OwnedByProgram(trace[4].info)

\* C3 as stated: on the create path the transaction holds exactly two
\* instructions, create-associated then transferChecked, whether or not a
\* memo was supplied.
C3_Original ==
  NeedsAssociatedAccount =>
    Kinds(transaction.instructions) = <<"createAssociated", "transferChecked">>

\* C3 amended: on the create path the one transaction holds create-associated
\* followed by transferChecked, followed by one memo instruction iff a
\* (non-empty) memo was supplied: exactly two instructions without a memo,
\* three with one.
C3_CreateThenTransfer ==
  NeedsAssociatedAccount =>
    /\ pc = "done"
    /\ result = Returned("transaction")
    /\ Kinds(transaction.instructions) =
         <<"createAssociated", "transferChecked">> \o MemoKinds
    /\ transaction.instructions[2] = ExpectedTransfer(ExpectedAssociatedAddress)

\* C3 witness: the create path with a memo and a non-zero amount.
C3_Witness ==
  /\ NeedsAssociatedAccount
  /\ Truthy(params.memo)
  /\ params.amount > 0
  /\ Len(transaction.instructions) = 3

\* C4: when the destination is not owned by programId, passes the unfunded
\* guard, and the second getAccountInfo, on the derived associated address,
\* returns an account owned by programId, the transferChecked goes to the
\* associated address (not to destinationPublicKey) and no create-associated
\* instruction is built.
C4_AssociatedAccountExists ==
  (/\ op = "transferTokens" /\ EncodableParams
   /\ IsReply(2) /\ ~OwnedByProgram(trace[2].info)
   /\ IsReply(4) /\ OwnedByProgram(trace[4].info)) =>
    /\ pc = "done"
    /\ result = Returned("transaction")
    /\ trace[4].key = ExpectedAssociatedAddress
    /\ Kinds(transaction.instructions) = <<"transferChecked">> \o MemoKinds
    /\ transaction.instructions[1].keys[3].pubkey = ExpectedAssociatedAddress
    /\ transaction.instructions[1].keys[3].pubkey # DestinationKey
    /\ transaction.instructions[1] = ExpectedTransfer(ExpectedAssociatedAddress)

\* C4 witness: the associated account of an unfunded destination, reached
\* with the override set.
C4_Witness ==
  /\ op = "transferTokens"
  /\ IsReply(2) /\ ~trace[2].info.exists
  /\ IsReply(4) /\ OwnedByProgram(trace[4].info)
  /\ Len(transaction.instructions) = 1

\* C5: createAndInitializeMint submits exactly [createAccount(mint),
\* initializeMint] when amount = 0 and exactly [createAccount(mint),
\* initializeMint, createAccount(initialAccount), initializeAccount, mintTo]
\* when amount > 0; unless it fails encoding the mint's decimals, its
\* transaction never holds another number of instructions than 0, 2 or 5.
C5_MintInstructions ==
  op = "createAndInitializeMint" =>
    /\ result # Thrown(EncodingError) =>
         Len(transaction.instructions) \in {0, 2, 5}
    /\ (Submitting /\ params.amount = 0) =>
         /\ Kinds(transaction.instructions) = <<"createAccount", "initializeMint">>
         /\ transaction.instructions[1].keys[2].pubkey = MintKey
    /\ (Submitting /\ params.amount > 0) =>
         /\ Kinds(transaction.instructions) =
              <<"createAccount", "initializeMint", "createAccount",
                "initializeAccount", "mintTo">>
         /\ transaction.instructions[1].keys[2].pubkey = MintKey
         /\ transaction.instructions[3].keys[2].pubkey = InitialAccountKey
         /\ transaction.instructions[5] =
              mintTo(MintKey, InitialAccountKey, params.amount, WalletKey)

\* C5 witness: a mint with an initial amount was submitted.
C5_Witness ==
  /\ op = "createAndInitializeMint"
  /\ params.amount > 0
  /\ result = Returned("signature")
  /\ Len(transaction.instructions) = 5

\* C6: the extra signer list createAndInitializeMint hands to
\* signAndSendTransaction is exactly [mint] when amount = 0 and exactly
\* [mint, initialAccount] when amount > 0, and setSigners receives the wallet
\* followed by that list.
C6_MintSigners ==
  (op = "createAndInitializeMint" /\ Submitting) =>
    /\ signers = IF params.amount = 0 THEN <<MintKey>>
                 ELSE <<MintKey, InitialAccountKey>>
    /\ CallCount("setSigners") > 0 =>
         transaction.signerKeys = <<WalletKey>> \o signers

\* C6 witness: a mint without initial amount and without an initial account
\* key was submitted.
C6_Witness ==
  /\ op = "createAndInitializeMint"
  /\ params.amount = 0
  /\ params.initialAccount = Undefined
  /\ result = Returned("signature")
  /\ signers = <<MintKey>>

C8_BurnAllZeroBalance ==
  (/\ op = "burnAllTokens"
   /\ IsReply(2) /\ trace[2].info.exists
   /\ toBigIntLE(SubSeq(trace[2].info.data, 65, 72)) = 0) =>
    /\ pc = "done"
    /\ result = Thrown(ZeroBalance)
    /\ transaction = NewTransaction
    /\ CallCount("getRecentBlockhash") = 0
    /\ CallCount("signTransaction") = 0
    /\ CallCount("sendRawTransaction") = 0
    /\ Len(trace) = 2

\* C8 witness: burnAllTokens read an existing account holding 0 tokens.
C8_Witness ==
  /\ op = "burnAllTokens"
  /\ IsReply(2) /\ trace[2].info.exists
  /\ result = Thrown(ZeroBalance)

\* The events of the submission protocol, as <<fn, phase>> pairs.
IsSubmissionEvent(e) ==
  e.fn \in {"getRecentBlockhash", "setSigners", "partialSign",
            "signTransaction", "serialize", "sendRawTransaction"}

SubmissionEvents ==
  LET es == SelectSeq(trace, IsSubmissionEvent)
  IN  [i \in 1..Len(es) |-> <<es[i].fn, es[i].phase>>]

\* The order C9 states, for a given extra signer list.
SubmissionOrder(sgn) ==
  <<<<"getRecentBlockhash", "call">>, <<"getRecentBlockhash", "return">>,
    <<"setSigners", "call">>>>
  \o (IF Len(sgn) > 0 THEN <<<<"partialSign", "call">>>> ELSE <<>>)
  \o <<<<"signTransaction", "call">>, <<"signTransaction", "return">>,
       <<"serialize", "call">>, <<"sendRawTransaction", "call">>,
       <<"sendRawTransaction", "return">>>>

IsPrefix(a, b) == Len(a) <= Len(b) /\ a = SubSeq(b, 1, Len(a))

\* C9: in every run of signAndSendTransaction the events occur in the order
\* getRecentBlockhash, attach blockhash and signers, partial signing (only
\* with a non-empty signer list), wallet.signTransaction (once), serialize,
\* sendRawTransaction, each after the previous completed; a run that stops
\* early stops at a rejected call or at serialize.
C9_SubmissionOrder ==
  LET es == SubmissionEvents
      n == Len(es)
  IN  /\ \/ IsPrefix(es, SubmissionOrder(signers))
         \/ /\ n >= 2
            /\ es[n][2] = "throw"
            /\ es[n - 1] = <<es[n][1], "call">>
            /\ IsPrefix(SubSeq(es, 1, n - 1), SubmissionOrder(signers))
      /\ CallCount("setSigners") > 0 =>
           /\ transaction.recentBlockhash # ""
           /\ transaction.signerKeys[1] = WalletKey
           /\ FeePayerOf(transaction) = WalletKey
      /\ CallCount("signTransaction") <= 1

\* C9 witness: a submission with an extra signer ran to sendRawTransaction's
\* return.
C9_Witness ==
  /\ op = "createAndInitializeTokenAccount"
  /\ result = Returned("signature")
  /\ SubmissionEvents = SubmissionOrder(<<NewAccountKey>>)

\* The top-level operations that submit a transaction.
SubmittingOps ==
  {"createAndInitializeMint", "mintMoreTokens", "burnTokens",
   "burnTokensAndClose", "burnAllTokens", "closeTokenAccount",
   "createAndInitializeTokenAccount", "nativeTransfer"}

IsPollReply(e) == e.fn = "confirmTransaction" /\ e.phase # "call"

PollKind(e) ==
  IF e.phase = "throw" THEN "timeout"
  ELSE IF e.info.exists THEN "err" ELSE "confirmed"

PollReplies ==
  LET es == SelectSeq(trace, IsPollReply)
  IN  [i \in 1..Len(es) |-> PollKind(es[i])]

ConfirmEnded == confirm.status \in {"returned", "thrown"}

\* C11: one top-level operation calls sendRawTransaction at most once and
\* asks for signatures at most once, whatever is rejected; once the
\* confirmation loop has started, every later event is a poll of the
\* transaction id the operation returned or the delay between two polls:
\* nothing is sent or signed again.
C11_NoResubmission ==
  /\ CallCount("sendRawTransaction") <= 1
  /\ CallCount("signTransaction") <= 1
  /\ CallCount("partialSign") <= 1
  /\ \A i \in 1..Len(trace) :
       trace[i].fn = "confirmTransaction" =>
         /\ result = Returned("signature")
         /\ trace[i].key = TxId(result)
         /\ \A j \in i..Len(trace) :
              trace[j].fn \in {"confirmTransaction", "setTimeout"}

\* C11 witness: the confirmation loop polled again after a failed poll, the
\* transaction having been sent once.
C11_Witness ==
  /\ confirm.i >= 1
  /\ CallCount("confirmTransaction") >= 2
  /\ CallCount("sendRawTransaction") = 1

\* C12: if the first N polls time out and poll N+1 reports success, with
\* N+1 <= maxRetries, confirmTransaction returns that result after exactly
\* N+1 polls and N delays, and polls no more.
C12_EventualSuccess ==
  \A k \in 1..Len(PollReplies) :
    (/\ PollReplies[k] = "confirmed"
     /\ \A j \in 1..(k - 1) : PollReplies[j] = "timeout") =>
      /\ k <= confirm.maxRetries
      /\ confirm.status = "returned"
      /\ confirm.value = "result"
      /\ Len(PollReplies) = k
      /\ CallCount("confirmTransaction") = k
      /\ CallCount("setTimeout") = k - 1
      /\ trace[Len(trace)] = Return("confirmTransaction", TxId(result), NullInfo)

\* C12 witness: success at the last allowed attempt after two timeouts.
C12_Witness ==
  /\ PollReplies = <<"timeout", "timeout", "confirmed">>
  /\ confirm.maxRetries = 3
  /\ confirm.status = "returned"

\* The safety half of C13.
C13_AtMostMaxRetries ==
  confirm.status # "idle" =>
    /\ CallCount("confirmTransaction") <= confirm.maxRetries
         \/ CallCount("confirmTransaction") = 0
    /\ (/\ confirm.maxRetries >= 1
        /\ Len(PollReplies) = confirm.maxRetries
        /\ \A j \in 1..Len(PollReplies) : PollReplies[j] = "timeout") =>
         /\ confirm.status = "thrown"
         /\ confirm.value = CollaboratorError
         /\ CallCount("setTimeout") = confirm.maxRetries - 1
         /\ trace[Len(trace)] = Throw("confirmTransaction", TxId(result))

\* C13: confirmTransaction polls at most maxRetries times and always ends;
\* when maxRetries polls in a row time out it throws the timeout of the last
\* poll after exactly maxRetries polls, with no poll and no delay after it.
C13_Bounded ==
  /\ []C13_AtMostMaxRetries
  /\ (confirm.status \in {"polling", "sleeping"}) ~> ConfirmEnded

\* C13 witness: every allowed poll timed out and the loop has thrown.
C13_Witness ==
  /\ confirm.maxRetries = 3
  /\ PollReplies = <<"timeout", "timeout", "timeout">>
  /\ confirm.status = "thrown"

\* C14 as stated: a poll whose result carries an on-chain error ends the
\* confirmation step at once with "Transaction failed", on whichever attempt
\* it is seen, and no poll follows it.
C14_LedgerRejectedTerminal ==
  \A k \in 1..Len(PollReplies) :
    PollReplies[k] = "err" =>
      /\ confirm.status = "thrown"
      /\ confirm.value = TransactionFailed
      /\ Len(PollReplies) = k
      /\ CallCount("setTimeout") < k

\* C15 as stated: a confirmation step that has seen an on-chain rejection
\* never ends with the timeout failure, and one that has seen only timeouts
\* never ends with the rejection failure.
C15_TimeoutDistinctFromRejection ==
  confirm.status = "thrown" =>
    /\ confirm.value = CollaboratorError =>
         \A k \in 1..Len(PollReplies) : PollReplies[k] # "err"
    /\ confirm.value = TransactionFailed =>
         \E k \in 1..Len(PollReplies) : PollReplies[k] = "err"

\* ------------------------------------------------ claims on the signer set

\* Every account some instruction of the transaction flags isSigner.
SignerAccounts(tx) ==
  UNION {{tx.instructions[i].keys[j].pubkey :
            j \in {k \in DOMAIN tx.instructions[i].keys :
                     tx.instructions[i].keys[k].isSigner}} :
         i \in DOMAIN tx.instructions}

\* C19: whenever a submitting operation has called sendRawTransaction, every
\* account flagged isSigner in an instruction of the transaction is the wallet
\* or one of the extra signers handed to signAndSendTransaction and has signed;
\* when serialize finds an isSigner account without a signature the operation
\* has ended with that failure and sendRawTransaction was never called.
C19_SignerInvariant ==
  (op \in SubmittingOps /\ CallCount("serialize") > 0) =>
    LET flagged == SignerAccounts(transaction)
        unsigned == flagged \ transaction.signatures
    IN  /\ CallCount("sendRawTransaction") > 0 =>
             /\ flagged \subseteq
                  {WalletKey} \cup {signers[i] : i \in DOMAIN signers}
             /\ unsigned = {}
        /\ unsigned # {} =>
             /\ pc = "done"
             /\ result = Thrown(SignatureVerificationFailed)
             /\ CallCount("sendRawTransaction") = 0

\* C19 witness: a mint with an initial account was sent carrying the
\* signatures of the wallet and of both fresh keypairs.
C19_Witness ==
  /\ op = "createAndInitializeMint"
  /\ CallCount("sendRawTransaction") = 1
  /\ SignerAccounts(transaction) = {WalletKey, MintKey, InitialAccountKey}
  /\ transaction.signatures = {WalletKey, MintKey, InitialAccountKey}

\* ------------------------------------------------ claims on local failures

\* The calls that go to the network.
NetworkCalls ==
  {"getMinimumBalanceForRentExemption", "getAccountInfo",
   "getRecentBlockhash", "sendRawTransaction"}

\* C20 as stated: an operation that has failed with an encoding error has
\* made no network call.
C20_EncodingErrorBeforeIO ==
  result = Thrown(EncodingError) =>
    \A i \in 1..Len(trace) : trace[i].fn \notin NetworkCalls

\* ------------------------------------------- claims on the pure functions

\* The fields of a source object as the layout holds them: a key as its 32
\* bytes, the freeze-authority flag as the byte 0 or 1.
SourceFields(src) ==
  CASE src.variant = "initializeMint" ->
         [variant |-> src.variant, decimals |-> src.decimals,
          mintAuthority |-> toBuffer(src.mintAuthority),
          freezeAuthorityOption |-> IF src.freezeAuthorityOption THEN 1 ELSE 0,
          freezeAuthority |-> toBuffer(src.freezeAuthority)]
    [] src.variant \in {"mintTo", "burn"} ->
         [variant |-> src.variant, amount |-> src.amount]
    [] src.variant = "transferChecked" ->
         [variant |-> src.variant, amount |-> src.amount,
          decimals |-> src.decimals]
    [] OTHER -> [variant |-> src.variant]

\* The tag and the encoded length C16 states for each variant.
StatedTag(v) ==
  CASE v = "initializeMint" -> 0 [] v = "initializeAccount" -> 1
    [] v = "mintTo" -> 7 [] v = "burn" -> 8
    [] v = "closeAccount" -> 9 [] v = "transferChecked" -> 12

StatedLength(v) ==
  CASE v = "initializeMint" -> 67 [] v = "initializeAccount" -> 1
    [] v = "mintTo" -> 9 [] v = "burn" -> 9
    [] v = "closeAccount" -> 1 [] v = "transferChecked" -> 10

Row(pubkey, flags) ==
  [pubkey |-> pubkey, isSigner |-> flags = "S", isWritable |-> flags = "W"]

\* The account table C17 states, for the arguments a builder was called with.
StatedAccounts(a) ==
  CASE a.builder = "initializeMint" ->
         <<Row(a.mint, "W"), Row(SYSVAR_RENT_PUBKEY, "-")>>
    [] a.builder = "initializeAccount" ->
         <<Row(a.account, "W"), Row(a.mint, "-"), Row(a.owner, "-"),
           Row(SYSVAR_RENT_PUBKEY, "-")>>
    [] a.builder = "mintTo" ->
         <<Row(a.mint, "W"), Row(a.destination, "W"), Row(a.owner, "S")>>
    [] a.builder = "burn" ->
         <<Row(a.account, "W"), Row(a.mint, "W"), Row(a.owner, "S")>>
    [] a.builder = "closeAccount" ->
         <<Row(a.account, "W"), Row(a.destination, "W"), Row(a.owner, "S")>>
    [] a.builder = "transferChecked" ->
         <<Row(a.account, "W"), Row(a.mint, "-"), Row(a.destination, "W"),
           Row(a.owner, "S")>>
    [] a.builder = "memoInstruction" -> <<>>
    [] a.builder = "assertOwner" -> <<Row(a.account, "-")>>

\* The builders whose instruction names an authority that must sign.
AuthorityBearing == {"mintTo", "burn", "closeAccount", "transferChecked"}

\* C17: each builder returns its accounts in exactly the stated order with
\* exactly the stated flags; memo has no accounts and carries the UTF-8 bytes
\* of its text; the owner assertion has its single account, neither signer nor
\* writable, and carries the 32 bytes of the expected owner; no account is both
\* signer and writable, and an authority-bearing instruction has exactly one
\* signer, its last account.
C17_AccountTable ==
  op = "builder" =>
    LET ix == result.value
        n == Len(ix.keys)
    IN  /\ ix.keys = StatedAccounts(params)
        /\ \A i \in 1..n : ~(ix.keys[i].isSigner /\ ix.keys[i].isWritable)
        /\ params.builder \in AuthorityBearing =>
             /\ ix.keys[n].isSigner
             /\ \A i \in 1..(n - 1) : ~ix.keys[i].isSigner
        /\ params.builder = "memoInstruction" =>
             /\ ix.programId = MEMO_PROGRAM_ID
             /\ params.memo = <<109, 233>> => ix.data = <<109, 195, 169>>
             /\ params.memo = <<>> => ix.data = <<>>
        /\ params.builder = "assertOwner" =>
             /\ ix.programId = OWNER_VALIDATION_PROGRAM_ID
             /\ Len(ix.data) = 32
             /\ ix.data = toBuffer(params.owner)
             /\ ix.data[1] = KeyByte(params.owner)

\* C17 witness: the owner assertion was built.
C17_Witness ==
  /\ op = "builder"
  /\ params.builder = "assertOwner"
  /\ params.owner = InitialAccountKey
  /\ result.value.keys = <<Meta(params.account, FALSE, FALSE)>>

\* C18: every call of findAssociatedTokenAddress, whatever was derived before
\* it, returns the address derived under the associated-token program from
\* the seeds (owner, token program, mint) in that order, the token program
\* being programId, or TOKEN_PROGRAM_ID when programId is omitted; two calls
\* with the same arguments return the same address.
C18_DerivationDeterministic ==
  op = "findAssociatedTokenAddress" =>
    /\ \A i \in 1..Len(trace) :
         LET a == trace[i].info
             tokenProgram == IF a.programId = Undefined
                             THEN "TokenAAGbeQq5tGW2r5RoR3oauzN2EkNFiHNPw9q34s"
                             ELSE a.programId.name
         IN  trace[i].key =
               [name |-> "Dt8fRCpjeV6JDemhPmtcTKijgKdPxXHn9Wo9cXY5agtG",
                seeds |-> <<a.walletAddress.name, tokenProgram,
                            a.tokenMintAddress.name>>]
    /\ \A i, j \in 1..Len(trace) :
         trace[i].info = trace[j].info => trace[i].key = trace[j].key

\* C18 witness: the same triple, programId omitted, derived twice in a row
\* with the same result.
C18_Witness ==
  /\ op = "findAssociatedTokenAddress"
  /\ Len(trace) = 2
  /\ trace[1].info = trace[2].info
  /\ trace[1].info.programId = Undefined
  /\ trace[1].key = trace[2].key

\* ------------------------------------------- claims on whole operations

\* C21 as stated: whenever transferTokens returns, it returns the transaction
\* id sendRawTransaction gave, having signed and submitted the transfer.
C21_TransferSubmits ==
  (op = "transferTokens" /\ pc = "done" /\ result.status = "returned") =>
    /\ result = Returned("signature")
    /\ CallCount("signTransaction") = 1
    /\ CallCount("sendRawTransaction") = 1

\* C22 as stated: when no collaborator rejects, mintMoreTokensWithNewAccount
\* ends having composed createAccount, initializeAccount and mintTo, in that
\* order, and returns the transaction id.
C22_MintToNewAccount ==
  (/\ op = "mintMoreTokensWithNewAccount"
   /\ pc = "done"
   /\ \A i \in 1..Len(trace) : trace[i].phase # "throw") =>
    /\ result = Returned("signature")
    /\ Kinds(transaction.instructions) =
         <<"createAccount", "initializeAccount", "mintTo">>
    /\ Len(signers) = 1
    /\ CallCount("sendRawTransaction") = 1

\* The balance burnAllTokens read, when its read returned an account.
BalanceRead == toBigIntLE(SubSeq(trace[2].info.data, 65, 72))

\* C23: when the account exists with a non-zero balance, burnAllTokens makes
\* exactly one getAccountInfo read and submits a burn whose amount is the
\* balance that read held, its eight payload bytes being the eight balance
\* bytes of the account; closeAccount follows iff the closeAccount flag is set.
C23_BurnAllAmount ==
  (/\ op = "burnAllTokens"
   /\ IsReply(2) /\ trace[2].info.exists
   /\ BalanceRead > 0) =>
    /\ CallCount("getAccountInfo") = 1
    /\ Submitting
    /\ trace[3] = Call("getRecentBlockhash", Undefined)
    /\ transaction.instructions[1] =
         burn(TokenAccountKey, MintKey, BalanceRead, WalletKey)
    /\ SubSeq(transaction.instructions[1].data, 2, 9) =
         SubSeq(trace[2].info.data, 65, 72)
    /\ Kinds(transaction.instructions) =
         <<"burn">> \o (IF params.closeIfEmpty THEN <<"closeAccount">> ELSE <<>>)
    /\ signers = <<>>

\* C23 witness: the whole balance of 2 was burnt and sent, the account being
\* closed in the same transaction.
C23_Witness ==
  /\ op = "burnAllTokens"
  /\ IsReply(2) /\ trace[2].info.exists
  /\ BalanceRead = 2
  /\ params.closeIfEmpty
  /\ result = Returned("signature")
  /\ Len(transaction.instructions) = 2

\* The positions at which signAndSendTransaction is suspended.
InSignAndSend == pc \in {"sas_blockhash", "sas_wallet", "sas_send"}

\* C25: no step signAndSendTransaction takes, from the moment the composer
\* hands it the transaction until it returns or throws, changes the
\* transaction's instruction list: the instructions sent are those composed.
C25_InstructionsFrozen ==
  [][InSignAndSend => transaction'.instructions = transaction.instructions]_vars

\* C25 witness: a burn followed by closeAccount has been given a blockhash,
\* signed and sent.
C25_Witness ==
  /\ op = "burnTokensAndClose"
  /\ pc = "done" /\ result = Returned("signature")
  /\ transaction.recentBlockhash = "blockhash"
  /\ WalletKey \in transaction.signatures
  /\ Kinds(transaction.instructions) = <<"burn", "closeAccount">>

\* C28: on the create path of transferTokens the second getAccountInfo, the
\* account the create-associated instruction creates and the destination of
\* transferChecked are one address, derived from (destinationPublicKey,
\* programId, mint); the programId that failed both ownership checks is the
\* token program the create instruction lists and the program transferChecked
\* is addressed to; the funding account is owner.publicKey, signer and
\* writable.
C28_AssociatedAddressConsistent ==
  NeedsAssociatedAccount =>
    /\ trace[3] = Call("getAccountInfo", ExpectedAssociatedAddress)
    /\ trace[4].key = ExpectedAssociatedAddress
    /\ transaction.instructions[1].keys[2] =
         Meta(ExpectedAssociatedAddress, FALSE, TRUE)
    /\ transaction.instructions[2].keys[3] =
         Meta(ExpectedAssociatedAddress, FALSE, TRUE)
    /\ transaction.instructions[1].keys[3].pubkey = DestinationKey
    /\ transaction.instructions[1].keys[4].pubkey = MintKey
    /\ transaction.instructions[1].keys[6].pubkey = ProgramIdOf(params)
    /\ transaction.instructions[2].programId = ProgramIdOf(params)
    /\ transaction.instructions[1].keys[1] = Meta(WalletKey, TRUE, TRUE)

\* C28 witness: the create path taken under a token program other than the
\* default one, the queried associated address being absent.
C28_Witness ==
  /\ NeedsAssociatedAccount
  /\ params.programId = BTCI_PROGRAM_ID
  /\ ~trace[4].info.exists
  /\ IxKind(transaction.instructions[1]) = "createAssociated"
  /\ transaction.instructions[1].keys[6].pubkey = BTCI_PROGRAM_ID

\* C29 as stated: every create-associated instruction built lists seven
\* accounts, each with a public key, flagged [funding S W, associated W,
\* wallet, mint, system program, token program, rent sysvar], and the
\* associated address is the one derived with the listed token program as
\* seed.
C29_CreateAssociatedWellFormed ==
  \A i \in 1..Len(transaction.instructions) :
    LET ix == transaction.instructions[i]
    IN  IxKind(ix) = "createAssociated" =>
          /\ Len(ix.keys) = 7
          /\ \A j \in 1..7 : ix.keys[j].pubkey # Undefined
          /\ [j \in 1..7 |-> <<ix.keys[j].isSigner, ix.keys[j].isWritable>>] =
               <<<<TRUE, TRUE>>, <<FALSE, TRUE>>, <<FALSE, FALSE>>,
                 <<FALSE, FALSE>>, <<FALSE, FALSE>>, <<FALSE, FALSE>>,
                 <<FALSE, FALSE>>>>
          /\ ix.keys[5].pubkey = SystemProgramId
          /\ ix.keys[7].pubkey = SYSVAR_RENT_PUBKEY
          /\ ix.keys[2].pubkey =
               FindProgramAddress(<<ix.keys[3].pubkey, ix.keys[6].pubkey,
                                    ix.keys[4].pubkey>>,
                                  ASSOCIATED_TOKEN_PROGRAM_ID)

\* C30 as stated: whatever maxRetries is, confirmTransaction returns normally
\* only if some poll returned a result with no error, and it returns that
\* result.
C30_SuccessObserved ==
  confirm.status = "returned" =>
    /\ \E k \in 1..Len(PollReplies) : PollReplies[k] = "confirmed"
    /\ confirm.value = "result"

\* The i-th event answers a read the operation requires: the token account of
\* burnAllTokens and getTokenAccountBalance, the mint of getMintSupply, and
\* the mint read that follows the token-account read of the two balance
\* queries.
RequiredRead(i) ==
  \/ i = 2 /\ op \in {"burnAllTokens", "getTokenAccountBalance", "getMintSupply"}
  \/ i = 4 /\ op \in {"getTokenAccountBalance", "getAssociatedTokenBalance"}

\* C27 as stated: whenever a required read returns nothing the operation
\* ends with an AccountNotFound error ("... not found") and no other
\* failure, and burnAllTokens has then built and submitted nothing.
C27_AccountNotFound ==
  \A i \in 1..Len(trace) :
    (RequiredRead(i) /\ IsReply(i) /\ ~trace[i].info.exists) =>
      /\ pc = "done"
      /\ result \in {Thrown(AccountNotFound), Thrown(MintNotFound)}
      /\ op = "burnAllTokens" =>
           (transaction = NewTransaction /\ ~Submitting)

\* C24: every encoder call returns a Buffer on memory allocated in that call,
\* which no other call's Buffer refers to, and the bytes a call returned read
\* the same after every later encoder call, whatever was encoded: through
\* each Buffer returned so far the caller still reads the bytes it read when
\* that call returned.
C24_NoBufferAliasing ==
  op \in EncoderOps =>
    /\ Len(heap) = Len(trace)
    /\ \A i \in 1..Len(trace) :
         /\ trace[i].info.view.ref = i
         /\ ViewBytes(heap, trace[i].info.view) = trace[i].info.bytes
         /\ \A j \in 1..Len(trace) :
              trace[j].info.view.ref = trace[i].info.view.ref => j = i
    /\ trace[Len(trace)].info.bytes = result.value

\* C24 witness: a burn of 2^64 - 1 was encoded, then a one-byte closeAccount,
\* and the nine bytes of the burn are still read through the first Buffer.
C24_Witness ==
  /\ op = "encodeTokenInstructionData"
  /\ Len(trace) = 2
  /\ trace[1].info.bytes = <<8, 255, 255, 255, 255, 255, 255, 255, 255>>
  /\ trace[2].info.bytes = <<9>>
  /\ ViewBytes(heap, trace[1].info.view) = trace[1].info.bytes

\* The operations that compose from their parameters, and from the one read
\* burnAllTokens makes, and hand over no extra signer.
ComposedFromParams ==
  {"mintMoreTokens", "burnTokens", "burnTokensAndClose", "burnAllTokens",
   "nativeTransfer", "closeTokenAccount"}

\* The transaction such an operation composes when it runs alone, from its
\* own parameters and its own query responses.
ComposedAlone ==
  CASE op = "mintMoreTokens" ->
         mintMoreTokensTx(MintKey, TokenAccountKey, params.amount, WalletKey)
    [] op = "burnTokens" ->
         burnTokensTx(WalletKey, TokenAccountKey, MintKey, params.amount)
    [] op = "burnTokensAndClose" ->
         burnTokensAndCloseTx(WalletKey, TokenAccountKey, MintKey,
                              params.amount, params.closeIfEmpty)
    [] op = "burnAllTokens" ->
         burnTokensAndCloseTx(WalletKey, TokenAccountKey, MintKey,
                              BalanceRead, params.closeIfEmpty)
    [] op = "nativeTransfer" ->
         nativeTransferTx(WalletKey, DestinationKey, params.amount)
    [] op = "closeTokenAccount" -> closeTokenAccountTx(WalletKey, SourceKey)

\* C26: whatever the interleaving of two operations at their awaits, the
\* running operation's instruction sequence, signer list and number of
\* sendRawTransaction calls are those it has when run alone on the same
\* parameters and query responses, and its trace holds its own calls only.
\* Every suspended operation is the running one after the next switch, so
\* the statement covers both.
C26_ConcurrentIndependence ==
  /\ C1_ExistingTokenAccount /\ C3_CreateThenTransfer
  /\ C4_AssociatedAccountExists
  /\ C5_MintInstructions /\ C6_MintSigners
  /\ (Submitting /\ op \in ComposedFromParams) =>
       /\ transaction.instructions = ComposedAlone.instructions
       /\ signers = <<>>
  /\ (Submitting /\ op = "createAndInitializeTokenAccount") =>
       /\ Kinds(transaction.instructions) =
            <<"createAccount", "initializeAccount">>
       /\ signers = <<NewAccountKey>>
  /\ op = "transferTokens" =>
       /\ Len(trace) <= 4
       /\ \A i \in 1..Len(trace) : trace[i].fn = "getAccountInfo"
       /\ signers = <<>>
       /\ pc = "done" \/ transaction = NewTransaction
  /\ op # "transferTokens" =>
       \A i \in 1..Len(trace) :
         trace[i].fn = "getAccountInfo" => trace[i].key = TokenAccountKey
  /\ CallCount("sendRawTransaction") <= 1
  /\ result = Returned("signature") <=>
       (/\ pc = "done" /\ Len(trace) > 0
        /\ trace[Len(trace)].fn = "sendRawTransaction"
        /\ trace[Len(trace)].phase = "return")

\* C26 witness: burnAllTokens has composed burn and closeAccount from the
\* balance it read and awaits sendRawTransaction, while the transfer started
\* before it has had its first reply and awaits its second query.
C26_Witness ==
  /\ op = "burnAllTokens"
  /\ pc = "sas_send"
  /\ Kinds(transaction.instructions) = <<"burn", "closeAccount">>
  /\ other.op = "transferTokens"
  /\ other.pc = "tt_associatedInfo"
  /\ Len(other.trace) = 3

====
